---- MODULE Spec2Model ----
(***************************************************************************)
(* ScholarLens: the text chunker (src/src/utils/chunking.py).              *)
(*                                                                         *)
(* A Python str is modelled as a sequence of one-character strings, a list *)
(* as a sequence, a TextChunk as a record.  One call of a chunking entry   *)
(* point is one behaviour: Init is the constructed TextChunker together    *)
(* with the arguments of the call, every loop iteration is one step.       *)
(***************************************************************************)
EXTENDS Integers, Sequences, FiniteSets, TLC

\* ------------------------------------------------------------------ bounds
MaxTextLen == 7
MaxChunkSize == 5
MaxOverlap == 5
MaxChunks == 5
MaxSecTextLen == 6

\* Default of TextChunker.__init__'s min_chunk_size.
DefaultMinChunkSize == 100

VARIABLES
    call,            \* the entry point of this behaviour
    strategy,        \* chunk_text's strategy argument ("-" for a direct call)
    text,            \* the text argument of the call
    sections,        \* chunk_by_sections' sections argument
    chunk_size,      \* TextChunker.chunk_size
    overlap,         \* TextChunker.overlap
    min_chunk_size,  \* TextChunker.min_chunk_size
    pc,              \* position of the call
    words,           \* chunk_by_tokens: words
    start_idx,       \* chunk_by_tokens: start_idx
    chunk_id,        \* chunk_by_tokens / chunk_by_paragraphs: chunk_id
    chunks,          \* chunk_by_tokens / chunk_by_paragraphs: chunks
    sec_i,           \* chunk_by_sections: index of the section being processed
    sec_chunk_id,    \* chunk_by_sections: chunk_id
    sec_chunks,      \* chunk_by_sections: chunks
    paragraphs,      \* chunk_by_paragraphs: paragraphs
    para_i,          \* chunk_by_paragraphs: index of the next paragraph
    current_chunk,   \* chunk_by_paragraphs: current_chunk
    current_tokens,  \* chunk_by_paragraphs: current_tokens
    current_start,   \* chunk_by_paragraphs: current_start
    returned,        \* the list returned by the call (once pc = "done")
    p_call,          \* PDFParser: the method this behaviour calls
    page_texts,      \* PDFParser: page_texts, the text of each page
    pdf_metadata,    \* PDFParser: doc.metadata of the PDF library
    extract_tables,  \* PDFParser.extract_tables
    full_text,       \* PDFParser: full_text (the text argument of a direct call)
    metadata,        \* PDFParser: metadata
    ppc,             \* PDFParser: position of the call
    doc,             \* PDFParser: the fields of the Document computed so far
    cleaner_call,    \* TextCleaner: the method this behaviour calls
    cleaner_in,      \* TextCleaner: the text argument of the first call
    cleaner_out,     \* TextCleaner: the results of the successive calls
    cleaner_flags,   \* TextCleaner.clean_text: the transforms enabled by the arguments
    cleaner_pc,      \* TextCleaner.clean_text: position of the call
    cleaner_text,    \* TextCleaner.clean_text: text
    cleaner_applied, \* TextCleaner.clean_text: the transforms called so far, in order
    cleaner_raised,  \* TextCleaner: the call raised an exception
    max_sessions,    \* SessionManager.max_sessions
    session_timeout, \* SessionManager.session_timeout
    sm,              \* SessionManager: sessions and access_order
    clock,           \* datetime.now()
    next_id,         \* the number of the next uuid4 of create_session
    s_ret,           \* SessionManager: what the last call returned
    s_calls,         \* SessionManager: the number of calls made
    recency,         \* the stored sessions that were accessed, least recent first
    o_args,          \* OrchestratorAgent.analyze_paper: its arguments
    o_pc,            \* OrchestratorAgent.analyze_paper: position of the call
    o_session_id,    \* OrchestratorAgent.analyze_paper: session_id
    o_exception      \* OrchestratorAgent.analyze_paper: the exception raised

chunkerVars == <<call, strategy, text, sections, chunk_size, overlap, min_chunk_size,
                 pc, words, start_idx, chunk_id, chunks, sec_i, sec_chunk_id,
                 sec_chunks, paragraphs, para_i, current_chunk, current_tokens,
                 current_start, returned>>
parserVars == <<p_call, page_texts, pdf_metadata, extract_tables, full_text,
                metadata, ppc, doc>>
cleanerVars == <<cleaner_call, cleaner_in, cleaner_out, cleaner_flags, cleaner_pc,
                 cleaner_text, cleaner_applied, cleaner_raised>>

managerVars ==
    <<max_sessions, session_timeout, sm, clock, next_id, s_ret, s_calls, recency>>
orchestratorVars == <<o_args, o_pc, o_session_id, o_exception>>
sessionVars == <<managerVars, orchestratorVars>>

vars == <<chunkerVars, parserVars, cleanerVars, sessionVars>>

\* What a call of the chunker leaves alone.
otherVars == <<parserVars, cleanerVars, sessionVars>>

tokenVars == <<words, start_idx, chunk_id, chunks>>
secVars == <<sec_i, sec_chunk_id, sec_chunks>>
paraVars == <<paragraphs, para_i, current_chunk, current_tokens, current_start>>
inputVars == <<call, strategy, text, sections, chunk_size, overlap, min_chunk_size>>

\* ------------------------------------------------------------ Python helpers
Min(a, b) == IF a <= b THEN a ELSE b
Max(a, b) == IF a >= b THEN a ELSE b

\* Python's None for TextChunk.section.
None == "<None>"

\* str.isspace for the characters of the model.
IsSpace(c) == c \in {" ", "\n", "\t"}

\* A slice bound of Python's s[i:j] for a sequence of length n.
SliceIndex(i, n) == IF i < 0 THEN Max(n + i, 0) ELSE Min(i, n)

\* Python's s[i:j], negative and out-of-range bounds included.
PySlice(s, i, j) ==
    LET lo == SliceIndex(i, Len(s))
        hi == SliceIndex(j, Len(s))
    IN  IF lo < hi THEN SubSeq(s, lo + 1, hi) ELSE <<>>

\* str.split(): the maximal runs of non-whitespace characters, in order.
RECURSIVE SplitFrom(_, _, _)
SplitFrom(t, i, cur) ==
    IF i > Len(t)
    THEN IF cur = <<>> THEN <<>> ELSE <<cur>>
    ELSE IF IsSpace(t[i])
         THEN IF cur = <<>> THEN SplitFrom(t, i + 1, <<>>)
              ELSE <<cur>> \o SplitFrom(t, i + 1, <<>>)
         ELSE SplitFrom(t, i + 1, Append(cur, t[i]))

Split(t) == SplitFrom(t, 1, <<>>)

\* sep.join(parts)
RECURSIVE Join(_, _)
Join(parts, sep) ==
    IF parts = <<>> THEN <<>>
    ELSE IF Len(parts) = 1 THEN parts[1]
    ELSE parts[1] \o sep \o Join(Tail(parts), sep)

\* sum(len(w) + 1 for w in ws)
RECURSIVE SumLenPlusOne(_)
SumLenPlusOne(ws) ==
    IF ws = <<>> THEN 0 ELSE Len(ws[1]) + 1 + SumLenPlusOne(Tail(ws))

\* ------------------------------------------------------------- TextChunker
\* estimate_tokens: int(len(text.split()) * 1.33)
EstimateTokens(t) == (Len(Split(t)) * 133) \div 100

\* words_per_chunk taken in tokens, without the 0.75 conversion.
WordsPerChunk_NoRatio(cs) == cs

\* words_per_chunk converted with a ratio of 0.5.
WordsPerChunk_Half(cs) == cs \div 2

\* int(self.chunk_size * 0.75)
WordsPerChunk(cs) == (cs * 3) \div 4

\* int(self.overlap * 0.75)
OverlapWords(ov) == (ov * 3) \div 4

TextChunk(content, id, sp, ep, section, tc) ==
    [content |-> content, chunk_id |-> id, start_pos |-> sp, end_pos |-> ep,
     section |-> section, token_count |-> tc]

\* end_idx = min(start_idx + words_per_chunk, len(words))
EndIdx(si, ws, cs) == Min(si + WordsPerChunk(cs), Len(ws))

\* The chunk one iteration of chunk_by_tokens' loop builds.
TokenChunk(ws, si, id, cs) ==
    LET chunk_words == PySlice(ws, si, EndIdx(si, ws, cs))
        chunk_text == Join(chunk_words, <<" ">>)
        start_pos == SumLenPlusOne(PySlice(ws, 0, si))
    IN  TextChunk(chunk_text, id, start_pos, start_pos + Len(chunk_text),
                  None, EstimateTokens(chunk_text))

\* The next window started at end_idx, without stepping back by the overlap.
NextStartIdx_NoOverlap(si, ws, cs, ov) == EndIdx(si, ws, cs)

\* start_idx = end_idx - overlap_words
NextStartIdx(si, ws, cs, ov) == EndIdx(si, ws, cs) - OverlapWords(ov)

\* The break test against len(words) alone.
BreakNow_NoOverlap(nsi, ws, ov) == nsi >= Len(ws)

\* if start_idx >= len(words) - overlap_words: break
BreakNow(nsi, ws, ov) == nsi >= Len(ws) - OverlapWords(ov)

\* dict.get(key, default)
Get(d, key, default) == IF key \in DOMAIN d THEN d[key] ELSE default

\* The end of the leftmost-longest match of the pattern \n\s*\n that starts at
\* position i of t, or 0 when no match starts there.
MatchEnd(t, i) ==
    IF t[i] # "\n" THEN 0
    ELSE LET run == CHOOSE r \in i..Len(t) :
                        /\ \A k \in (i + 1)..r : IsSpace(t[k])
                        /\ (r = Len(t) \/ ~IsSpace(t[r + 1]))
             ends == {j \in (i + 1)..run : t[j] = "\n"}
         IN  IF ends = {} THEN 0 ELSE CHOOSE j \in ends : \A k \in ends : k <= j

\* re.split(r'\n\s*\n', text)
RECURSIVE ReSplitFrom(_, _, _)
ReSplitFrom(t, i, cur) ==
    IF i > Len(t) THEN <<cur>>
    ELSE LET e == MatchEnd(t, i)
         IN  IF e > 0 THEN <<cur>> \o ReSplitFrom(t, e + 1, <<>>)
             ELSE ReSplitFrom(t, i + 1, Append(cur, t[i]))

ReSplit(t) == ReSplitFrom(t, 1, <<>>)

\* ------------------------------------------------------------------ inputs
AllSeqs(S, n) == UNION {[1..k -> S] : k \in 0..n}

TokenTexts == AllSeqs({"a", " "}, MaxTextLen)
ParaTexts == AllSeqs({"a", " ", "\n"}, MaxTextLen)
SecTexts == AllSeqs({"a", " "}, MaxSecTextLen)

MinChunkSizes == {2, DefaultMinChunkSize}

\* The section lists of a call: none, one section with all its keys, or that
\* section followed by one that leaves a key to its default.
SectionLists(t) ==
    LET first == {f \in [title : {"Introduction"}, start : 0..Len(t), end : 0..Len(t)] :
                      f.start <= f.end}
        second(f) == {[title |-> "Method", start |-> f.end],
                      [start |-> 0, end |-> f.end]}
    IN  {<<>>} \cup {<<f>> : f \in first}
               \cup UNION {{<<f, g>> : g \in second(f)} : f \in first}

\* No PDFParser call in this behaviour.
ParserOff ==
    /\ p_call = "-" /\ page_texts = <<>> /\ pdf_metadata = <<>>
    /\ extract_tables = FALSE /\ full_text = <<>> /\ metadata = <<>>
    /\ ppc = "off" /\ doc = <<>>

\* No TextCleaner call in this behaviour.
CleanerOff ==
    /\ cleaner_call = "-" /\ cleaner_in = <<>> /\ cleaner_out = <<>>
    /\ cleaner_flags = {} /\ cleaner_pc = "off" /\ cleaner_text = <<>>
    /\ cleaner_applied = <<>> /\ cleaner_raised = FALSE

\* No SessionManager and no OrchestratorAgent in this behaviour.
SessionsOff ==
    /\ max_sessions = 0 /\ session_timeout = 0
    /\ sm = [sessions |-> <<>>, access_order |-> <<>>]
    /\ clock = 0 /\ next_id = 0 /\ s_ret = "-" /\ s_calls = 0 /\ recency = <<>>
    /\ o_args = <<>> /\ o_pc = "off" /\ o_session_id = 0 /\ o_exception = "-"

\* No chunker call in this behaviour.
ChunkerOff ==
    /\ call = "-" /\ strategy = "-" /\ text = <<>> /\ sections = <<>>
    /\ chunk_size = 0 /\ overlap = 0 /\ min_chunk_size = 0
    /\ pc = "off"
    /\ words = <<>> /\ start_idx = 0 /\ chunk_id = 0 /\ chunks = <<>>
    /\ sec_i = 0 /\ sec_chunk_id = 0 /\ sec_chunks = <<>>
    /\ paragraphs = <<>> /\ para_i = 0 /\ current_chunk = <<>>
    /\ current_tokens = 0 /\ current_start = 0
    /\ returned = <<>>

\* The locals of a call that has not started.
Idle ==
    /\ pc = "start"
    /\ words = <<>> /\ start_idx = 0 /\ chunk_id = 0 /\ chunks = <<>>
    /\ sec_i = 0 /\ sec_chunk_id = 0 /\ sec_chunks = <<>>
    /\ paragraphs = <<>> /\ para_i = 0 /\ current_chunk = <<>>
    /\ current_tokens = 0 /\ current_start = 0
    /\ returned = <<>>

\* chunk_text(text, chunk_size, overlap, strategy): TextChunker(chunk_size,
\* overlap), min_chunk_size left to its default.
InitChunkText ==
    /\ call = "chunk_text"
    /\ strategy \in {"tokens", "paragraphs"}
    /\ text \in IF strategy = "paragraphs" THEN ParaTexts ELSE TokenTexts
    /\ sections = <<>>
    /\ chunk_size \in 1..MaxChunkSize
    /\ overlap \in IF strategy = "paragraphs" THEN {0} ELSE 0..MaxOverlap
    /\ min_chunk_size = DefaultMinChunkSize

\* TextChunker(chunk_size, overlap, min_chunk_size).chunk_by_tokens(text)
InitChunkByTokens ==
    /\ call = "chunk_by_tokens"
    /\ strategy = "-"
    /\ text \in TokenTexts
    /\ sections = <<>>
    /\ chunk_size \in 1..MaxChunkSize
    /\ overlap \in 0..MaxOverlap
    /\ min_chunk_size \in MinChunkSizes

\* TextChunker(chunk_size, overlap).chunk_by_sections(text, sections)
InitChunkBySections ==
    /\ call = "chunk_by_sections"
    /\ strategy = "-"
    /\ text \in SecTexts
    /\ sections \in SectionLists(text)
    /\ chunk_size \in 1..MaxChunkSize
    /\ overlap \in 0..1
    /\ min_chunk_size = DefaultMinChunkSize

Init ==
    /\ Idle
    /\ ParserOff /\ CleanerOff /\ SessionsOff
    /\ \/ InitChunkText
       \/ InitChunkByTokens
       \/ InitChunkBySections

\* ---------------------------------------------------------- chunk_by_tokens
\* Entry of chunk_by_tokens(t): the locals before the loop.
EnterTokens(t) ==
    /\ words' = Split(t)
    /\ start_idx' = 0
    /\ chunk_id' = 0
    /\ chunks' = <<>>
    /\ pc' = "tokens_loop"

\* The sub-chunks appended with the chunk_id chunk_by_tokens gave them.
SubChunks_KeepIds(sub, sec, id) ==
    [k \in 1..Len(sub) |->
        TextChunk(sub[k].content, sub[k].chunk_id,
                  Get(sec, "start", 0) + sub[k].start_pos,
                  Get(sec, "start", 0) + sub[k].end_pos,
                  Get(sec, "title", "Unknown"), sub[k].token_count)]

\* The sub-chunks appended with offsets relative to the section.
SubChunks_NoShift(sub, sec, id) ==
    [k \in 1..Len(sub) |->
        TextChunk(sub[k].content, id + k - 1, sub[k].start_pos, sub[k].end_pos,
                  Get(sec, "title", "Unknown"), sub[k].token_count)]

\* The chunks chunk_by_sections appends for the sub-chunks of section sec.
SubChunks(sub, sec, id) ==
    [k \in 1..Len(sub) |->
        TextChunk(sub[k].content, id + k - 1,
                  Get(sec, "start", 0) + sub[k].start_pos,
                  Get(sec, "start", 0) + sub[k].end_pos,
                  Get(sec, "title", "Unknown"), sub[k].token_count)]

\* chunk_by_tokens returns result: to the caller of the entry point, or into
\* chunk_by_sections' loop over the sub-chunks of the section it is splitting.
ReturnTokens(result) ==
    IF sec_i = 0
    THEN /\ returned' = result
         /\ pc' = "done"
         /\ UNCHANGED secVars
    ELSE /\ sec_chunks' = sec_chunks \o SubChunks(result, sections[sec_i], sec_chunk_id)
         /\ sec_chunk_id' = sec_chunk_id + Len(result)
         /\ sec_i' = sec_i + 1
         /\ pc' = "sections_loop"
         /\ UNCHANGED returned

\* while start_idx < len(words): false
TokensWhileExit ==
    /\ pc = "tokens_loop"
    /\ ~(start_idx < Len(words))
    /\ ReturnTokens(chunks)
    /\ UNCHANGED <<otherVars, inputVars, tokenVars, paraVars>>

\* The loop body up to the break test.
TokensBody ==
    /\ pc = "tokens_loop"
    /\ start_idx < Len(words)
    /\ Len(chunks) < MaxChunks
    /\ chunks' = Append(chunks, TokenChunk(words, start_idx, chunk_id, chunk_size))
    /\ start_idx' = NextStartIdx(start_idx, words, chunk_size, overlap)
    /\ chunk_id' = chunk_id + 1
    /\ UNCHANGED <<otherVars, inputVars, words, paraVars>>

\* One iteration that goes round the loop again.
TokensIterate ==
    /\ TokensBody
    /\ ~BreakNow(start_idx', words, overlap)
    /\ UNCHANGED <<pc, secVars, returned>>

\* One iteration that ends in the break, and the return.
TokensBreak ==
    /\ TokensBody
    /\ BreakNow(start_idx', words, overlap)
    /\ ReturnTokens(chunks')

\* chunk_text with a strategy other than "paragraphs".
ChunkTextTokens ==
    /\ pc = "start" /\ call = "chunk_text" /\ strategy # "paragraphs"
    /\ EnterTokens(text)
    /\ UNCHANGED <<otherVars, inputVars, secVars, paraVars, returned>>

CallChunkByTokens ==
    /\ pc = "start" /\ call = "chunk_by_tokens"
    /\ EnterTokens(text)
    /\ UNCHANGED <<otherVars, inputVars, secVars, paraVars, returned>>

\* -------------------------------------------------------- chunk_by_sections
\* if not sections: return self.chunk_by_tokens(text)
SectionsFallback ==
    /\ pc = "start" /\ call = "chunk_by_sections"
    /\ sections = <<>>
    /\ EnterTokens(text)
    /\ UNCHANGED <<otherVars, inputVars, secVars, paraVars, returned>>

SectionsBegin ==
    /\ pc = "start" /\ call = "chunk_by_sections"
    /\ sections # <<>>
    /\ sec_i' = 1 /\ sec_chunk_id' = 0 /\ sec_chunks' = <<>>
    /\ pc' = "sections_loop"
    /\ UNCHANGED <<otherVars, inputVars, tokenVars, paraVars, returned>>

\* section_text = text[start:end]
SectionText(t, sec) == PySlice(t, Get(sec, "start", 0), Get(sec, "end", Len(t)))

\* The chunk of a section that is kept whole.
SectionChunk(t, sec, id) ==
    TextChunk(SectionText(t, sec), id, Get(sec, "start", 0),
              Get(sec, "end", Len(t)), Get(sec, "title", "Unknown"),
              EstimateTokens(SectionText(t, sec)))

\* if section_tokens <= self.chunk_size
FitsChunk(t, cs) == EstimateTokens(t) <= cs

SectionSmall ==
    /\ pc = "sections_loop"
    /\ sec_i <= Len(sections)
    /\ FitsChunk(SectionText(text, sections[sec_i]), chunk_size)
    /\ sec_chunks' = Append(sec_chunks, SectionChunk(text, sections[sec_i], sec_chunk_id))
    /\ sec_chunk_id' = sec_chunk_id + 1
    /\ sec_i' = sec_i + 1
    /\ UNCHANGED <<otherVars, inputVars, pc, tokenVars, paraVars, returned>>

SectionSplit ==
    /\ pc = "sections_loop"
    /\ sec_i <= Len(sections)
    /\ ~FitsChunk(SectionText(text, sections[sec_i]), chunk_size)
    /\ EnterTokens(SectionText(text, sections[sec_i]))
    /\ UNCHANGED <<otherVars, inputVars, secVars, paraVars, returned>>

SectionsReturn ==
    /\ pc = "sections_loop"
    /\ sec_i > Len(sections)
    /\ returned' = sec_chunks
    /\ pc' = "done"
    /\ UNCHANGED <<otherVars, inputVars, tokenVars, secVars, paraVars>>

\* ------------------------------------------------------ chunk_by_paragraphs
ChunkTextParagraphs ==
    /\ pc = "start" /\ call = "chunk_text" /\ strategy = "paragraphs"
    /\ paragraphs' = ReSplit(text)
    /\ para_i' = 1
    /\ chunks' = <<>> /\ chunk_id' = 0
    /\ current_chunk' = <<>> /\ current_tokens' = 0 /\ current_start' = 0
    /\ pc' = "paragraphs_loop"
    /\ UNCHANGED <<otherVars, inputVars, words, start_idx, secVars, returned>>

\* The chunk chunk_by_paragraphs emits for the accumulated paragraphs.
ParagraphChunk(cur, id, cstart, ctokens) ==
    LET chunk_text == Join(cur, <<"\n", "\n">>)
    IN  TextChunk(chunk_text, id, cstart, cstart + Len(chunk_text), None, ctokens)

\* if current_tokens + para_tokens > self.chunk_size and current_chunk
Overflows(ctokens, para, cs, cur) ==
    ctokens + EstimateTokens(para) > cs /\ cur # <<>>

\* The next chunk started from the overflowing paragraph alone.
NextChunkSeed_NoOverlap(cur, para) == <<para>>

\* The next chunk started from the carried-over paragraph alone.
NextChunkSeed_DropPara(cur, para) ==
    IF Len(cur) > 1 THEN <<cur[Len(cur)]>> ELSE <<para>>

\* The paragraphs the next chunk starts with after an overflow.
NextChunkSeed(cur, para) ==
    IF Len(cur) > 1 THEN <<cur[Len(cur)], para>> ELSE <<para>>

\* An iteration that emits the accumulated chunk.
ParaEmit ==
    /\ pc = "paragraphs_loop"
    /\ para_i <= Len(paragraphs)
    /\ Overflows(current_tokens, paragraphs[para_i], chunk_size, current_chunk)
    /\ chunks' = Append(chunks, ParagraphChunk(current_chunk, chunk_id,
                                               current_start, current_tokens))
    /\ chunk_id' = chunk_id + 1
    /\ current_chunk' = NextChunkSeed(current_chunk, paragraphs[para_i])
    /\ para_i' = para_i + 1
    /\ UNCHANGED <<otherVars, inputVars, pc, words, start_idx, paragraphs, secVars, returned>>

\* ... with more than one paragraph accumulated: the last one is carried over.
ParaEmitOverlap ==
    /\ ParaEmit
    /\ Len(current_chunk) > 1
    /\ current_tokens' = EstimateTokens(current_chunk[Len(current_chunk)])
                           + EstimateTokens(paragraphs[para_i])
    /\ current_start' = current_start
            + Len(Join(PySlice(current_chunk', 0, -2), <<"\n", "\n">>)) + 2

\* ... with a single paragraph accumulated: nothing is carried over.
ParaEmitSingle ==
    /\ ParaEmit
    /\ ~(Len(current_chunk) > 1)
    /\ current_tokens' = EstimateTokens(paragraphs[para_i])
    /\ current_start' = current_start
            + Len(Join(current_chunk, <<"\n", "\n">>)) + 2

ParaAppend ==
    /\ pc = "paragraphs_loop"
    /\ para_i <= Len(paragraphs)
    /\ ~Overflows(current_tokens, paragraphs[para_i], chunk_size, current_chunk)
    /\ current_chunk' = Append(current_chunk, paragraphs[para_i])
    /\ current_tokens' = current_tokens + EstimateTokens(paragraphs[para_i])
    /\ para_i' = para_i + 1
    /\ UNCHANGED <<otherVars, inputVars, pc, tokenVars, paragraphs, current_start, secVars, returned>>

\* After the loop: the final chunk, if any paragraph is accumulated, and return.
ParagraphsFinish ==
    /\ pc = "paragraphs_loop"
    /\ para_i > Len(paragraphs)
    /\ chunks' = IF current_chunk # <<>>
                 THEN Append(chunks, ParagraphChunk(current_chunk, chunk_id,
                                                    current_start, current_tokens))
                 ELSE chunks
    /\ returned' = chunks'
    /\ pc' = "done"
    /\ UNCHANGED <<otherVars, inputVars, words, start_idx, chunk_id, paraVars, secVars>>

\* ----------------------------------------------------------- specification
Next ==
    \/ ChunkTextTokens
    \/ ChunkTextParagraphs
    \/ CallChunkByTokens
    \/ SectionsFallback
    \/ SectionsBegin
    \/ TokensWhileExit
    \/ TokensIterate
    \/ TokensBreak
    \/ SectionSmall
    \/ SectionSplit
    \/ SectionsReturn
    \/ ParaEmitOverlap
    \/ ParaEmitSingle
    \/ ParaAppend
    \/ ParagraphsFinish

Spec == Init /\ [][Next]_vars

\* ------------------------------------------------------------------ claims
\* The call runs chunk_by_tokens on the whole text.
TokensCall ==
    \/ call = "chunk_by_tokens"
    \/ call = "chunk_text" /\ strategy # "paragraphs"
    \/ call = "chunk_by_sections" /\ sections = <<>>

\* chunks and words are those of chunk_by_tokens (of the whole text or of the
\* section being split).
TokensFrame == ~(call = "chunk_text" /\ strategy = "paragraphs")

ParagraphsCall == call = "chunk_text" /\ strategy = "paragraphs"

\* The words of a chunk.
ChunkWords(c) == Split(c.content)

\* C1: with overlap >= chunk_size, every iteration of chunk_by_tokens' loop
\* either exits or moves start_idx strictly forward.
C1_DegenerateProgress ==
    [][(overlap >= chunk_size /\ pc = "tokens_loop" /\ pc' = "tokens_loop")
        => start_idx' > start_idx]_vars

\* C2: with overlap < chunk_size and a text of at least one word,
\* chunk_by_tokens terminates.  The loop's only loop-carried state that it
\* reads is start_idx, so an iteration that goes round again with start_idx
\* unchanged repeats for ever: termination requires that no iteration does.
C2_TerminatesNoStall ==
    [][(overlap < chunk_size /\ TokensCall /\ Len(words) >= 1
        /\ pc = "tokens_loop" /\ pc' = "tokens_loop")
        => start_idx' # start_idx]_vars

\* Chunk 1's words, then each later chunk's words after its first ow words.
RECURSIVE Reassemble(_, _)
Reassemble(cs, ow) ==
    IF cs = <<>> THEN <<>>
    ELSE IF Len(cs) = 1 THEN ChunkWords(cs[1])
    ELSE Reassemble(SubSeq(cs, 1, Len(cs) - 1), ow)
         \o PySlice(ChunkWords(cs[Len(cs)]), ow, Len(ChunkWords(cs[Len(cs)])))

\* C3: for a non-empty text and overlap < chunk_size, the chunks
\* chunk_by_tokens returns reproduce the text's word sequence: chunk 0 whole,
\* every later chunk without its first int(overlap*0.75) words.
C3_Reproduces ==
    (pc = "done" /\ TokensCall /\ text # <<>> /\ overlap < chunk_size)
        => Reassemble(returned, (overlap * 3) \div 4) = Split(text)

C3_Witness ==
    /\ pc = "done" /\ TokensCall /\ overlap < chunk_size
    /\ Len(returned) >= 2
    /\ (overlap * 3) \div 4 >= 1
    /\ Reassemble(returned, (overlap * 3) \div 4) = Split(text)

\* C4: every chunk chunk_by_tokens builds holds at most int(chunk_size*0.75)
\* words, and its token_count, int(1.33 * its word count), is at most
\* chunk_size.
C4_ChunkBounded ==
    TokensFrame =>
        \A k \in 1..Len(chunks) :
            /\ Len(ChunkWords(chunks[k])) <= (chunk_size * 3) \div 4
            /\ chunks[k].token_count = (Len(ChunkWords(chunks[k])) * 133) \div 100
            /\ chunks[k].token_count <= chunk_size

C4_Witness ==
    /\ pc = "done" /\ TokensCall
    /\ Len(returned) >= 2
    /\ Len(ChunkWords(returned[1])) = (chunk_size * 3) \div 4
    /\ Len(ChunkWords(returned[1])) >= 3
    /\ returned[1].token_count <= chunk_size

\* C5: with int(overlap*0.75) < int(chunk_size*0.75), every chunk after the
\* first starts exactly words_per_chunk - overlap_words words after its
\* predecessor, its first overlap_words words are the predecessor's last
\* overlap_words words, and it holds a word no earlier chunk holds.
C5_Stride ==
    LET wpc == (chunk_size * 3) \div 4
        ow == (overlap * 3) \div 4
        W(k) == ChunkWords(chunks[k])
        at(k) == (k - 1) * (wpc - ow)
    IN  (TokensFrame /\ ow < wpc) =>
            \A k \in 2..Len(chunks) :
                /\ W(k) = PySlice(words, at(k), at(k) + wpc)
                /\ chunks[k].start_pos = SumLenPlusOne(SubSeq(words, 1, at(k)))
                /\ PySlice(W(k), 0, ow)
                     = PySlice(W(k - 1), Len(W(k - 1)) - ow, Len(W(k - 1)))
                /\ Len(W(k)) > ow
                /\ at(k) + Len(W(k)) > at(k - 1) + Len(W(k - 1))

C5_Witness ==
    /\ pc = "done" /\ TokensCall
    /\ (overlap * 3) \div 4 >= 1
    /\ (overlap * 3) \div 4 < (chunk_size * 3) \div 4
    /\ Len(returned) >= 3
    /\ ChunkWords(returned[2])[1] = ChunkWords(returned[1])[Len(ChunkWords(returned[1]))]

\* C6: the i-th chunk (0-based) of the list a call returns has chunk_id = i,
\* under chunk_by_tokens, chunk_by_sections and chunk_by_paragraphs.
C6_DenseIds ==
    pc = "done" => \A i \in 1..Len(returned) : returned[i].chunk_id = i - 1

C6_Witness ==
    /\ pc = "done" /\ call = "chunk_by_sections"
    /\ Len(sections) = 2
    /\ ~FitsChunk(SectionText(text, sections[1]), chunk_size)
    /\ ~FitsChunk(SectionText(text, sections[2]), chunk_size)
    /\ Len(returned) >= 4
    /\ returned[Len(returned)].chunk_id = Len(returned) - 1

C8_EmptyText ==
    (pc = "done" /\ call = "chunk_text" /\ text = <<>>) => returned = <<>>

\* chunk_by_tokens as a function of the words: the chunks it returns, or the
\* chunks built so far when MaxChunks iterations have not ended the loop.
RECURSIVE TokensRun(_, _, _, _, _, _)
TokensRun(ws, si, id, cs, ov, acc) ==
    IF ~(si < Len(ws)) \/ Len(acc) >= MaxChunks THEN acc
    ELSE LET nsi == NextStartIdx(si, ws, cs, ov)
             out == Append(acc, TokenChunk(ws, si, id, cs))
         IN  IF BreakNow(nsi, ws, ov) THEN out
             ELSE TokensRun(ws, nsi, id + 1, cs, ov, out)

\* A chunk without its chunk_id.
Body(c) == [content |-> c.content, start_pos |-> c.start_pos,
            end_pos |-> c.end_pos, section |-> c.section,
            token_count |-> c.token_count]

\* What C9 says section sec contributes to the result.
SectionExpected(sec) ==
    LET start == Get(sec, "start", 0)
        end == Get(sec, "end", Len(text))
        title == Get(sec, "title", "Unknown")
        section_text == PySlice(text, start, end)
        tokens == (Len(Split(section_text)) * 133) \div 100
        sub == TokensRun(Split(section_text), 0, 0, chunk_size, overlap, <<>>)
    IN  IF tokens <= chunk_size
        THEN <<[content |-> section_text, start_pos |-> start, end_pos |-> end,
                section |-> title, token_count |-> tokens]>>
        ELSE [k \in 1..Len(sub) |->
                 [content |-> sub[k].content,
                  start_pos |-> sub[k].start_pos + start,
                  end_pos |-> sub[k].end_pos + start,
                  section |-> title, token_count |-> sub[k].token_count]]

RECURSIVE SectionsExpected(_)
SectionsExpected(n) ==
    IF n = 0 THEN <<>>
    ELSE SectionsExpected(n - 1) \o SectionExpected(sections[n])

\* C9: for the sections processed so far, in order, chunk_by_sections has
\* emitted one chunk (text[start:end], start, end, title) for a section within
\* chunk_size, and otherwise the chunks of chunk_by_tokens(text[start:end])
\* with section = title and both offsets increased by start.
C9_Sections ==
    (call = "chunk_by_sections" /\ sections # <<>> /\ pc # "start")
        => /\ [k \in 1..Len(sec_chunks) |-> Body(sec_chunks[k])]
                = SectionsExpected(sec_i - 1)
           /\ (pc = "done" => returned = sec_chunks /\ sec_i = Len(sections) + 1)

C9_Witness ==
    /\ pc = "done" /\ call = "chunk_by_sections"
    /\ Len(sections) = 2
    /\ ~FitsChunk(SectionText(text, sections[1]), chunk_size)
    /\ sections[1].start > 0
    /\ FitsChunk(SectionText(text, sections[2]), chunk_size)
    /\ returned[Len(returned)].section = "Method"
    /\ Len(returned) >= 3
    /\ returned[2].start_pos > sections[1].start

\* A step of chunk_by_paragraphs' loop that emits a chunk on overflow.
EmitsOnOverflow ==
    /\ ParagraphsCall
    /\ pc = "paragraphs_loop" /\ pc' = "paragraphs_loop"
    /\ Len(chunks') = Len(chunks) + 1

\* C10 as claimed: after a chunk is emitted on overflow, the next chunk begins
\* with the last paragraph of the chunk just emitted, followed by the
\* paragraph that overflowed.
C10_Original ==
    [][EmitsOnOverflow
        => current_chunk' = <<current_chunk[Len(current_chunk)], paragraphs[para_i]>>]_vars

\* C10 as amended: the last paragraph is carried over when the emitted chunk
\* holds more than one paragraph; a chunk of a single paragraph is followed
\* by a chunk that begins with the overflowing paragraph alone.
C10_OverlapSeed ==
    [][EmitsOnOverflow
        => /\ chunks'[Len(chunks')].content = Join(current_chunk, <<"\n", "\n">>)
           /\ current_chunk' =
                IF Len(current_chunk) > 1
                THEN <<current_chunk[Len(current_chunk)], paragraphs[para_i]>>
                ELSE <<paragraphs[para_i]>>]_vars

C10_Witness ==
    /\ pc = "done" /\ ParagraphsCall
    /\ \E k \in 1..(Len(returned) - 1) :
          LET prev == ReSplit(returned[k].content)
              next == ReSplit(returned[k + 1].content)
          IN  /\ Len(prev) > 1
              /\ prev[Len(prev)] # <<>>
              /\ Len(next) >= 2
              /\ next[1] = prev[Len(prev)]

\* C11: every chunk returned by chunk_by_paragraphs has token_count <=
\* chunk_size, also for a single paragraph larger than chunk_size and for
\* a chunk started from a carried-over paragraph.
C11_ParagraphBounded ==
    (pc = "done" /\ ParagraphsCall)
        => \A k \in 1..Len(returned) : returned[k].token_count <= chunk_size

\* ===================================================================
\* PDFParser (src/src/tools/pdf_parser.py): the document structurer.
\* One call of parse_pdf, or of one extractor, is one behaviour.
\* ===================================================================

\* -------------------------------------------------------------- bounds
MaxPages == 3

\* ----------------------------------------------------- Python str helpers
SetMin(S) == CHOOSE x \in S : \A y \in S : x <= y
SetMax(S) == CHOOSE x \in S : \A y \in S : x >= y

\* A string literal as a str of the model: the sequence of its characters.
Chars(s) == [i \in 1..Len(s) |-> SubSeq(s, i, i)]

UpperChars == Chars("ABCDEFGHIJKLMNOPQRSTUVWXYZ")
LowerChars == Chars("abcdefghijklmnopqrstuvwxyz")
DigitChars == Chars("0123456789")

Range(s) == {s[i] : i \in 1..Len(s)}

\* The character classes [A-Z], [a-z], \d, [a-zA-Z], str.isalnum, \w.
IsUpper(c) == c \in Range(UpperChars)
IsLower(c) == c \in Range(LowerChars)
IsDigit(c) == c \in Range(DigitChars)
IsAlpha(c) == IsUpper(c) \/ IsLower(c)
IsAlnum(c) == IsAlpha(c) \/ IsDigit(c)
IsWordChar(c) == IsAlnum(c) \/ c = "_"

\* str.lower()
LowerChar(c) ==
    IF IsUpper(c) THEN LowerChars[CHOOSE i \in 1..Len(UpperChars) : UpperChars[i] = c]
    ELSE c

Lower(t) == [i \in 1..Len(t) |-> LowerChar(t[i])]

\* str.strip()
Strip(t) ==
    LET solid == {i \in 1..Len(t) : ~IsSpace(t[i])}
    IN  IF solid = {} THEN <<>> ELSE SubSeq(t, SetMin(solid), SetMax(solid))

\* t[i:].startswith(s), i counted from 1
StartsWithAt(t, i, s) ==
    /\ i >= 1
    /\ i + Len(s) - 1 <= Len(t)
    /\ SubSeq(t, i, i + Len(s) - 1) = s

\* t[i:].lower().startswith(s) for s in lower case
StartsWithAtNoCase(t, i, s) ==
    /\ i >= 1
    /\ i + Len(s) - 1 <= Len(t)
    /\ \A k \in 1..Len(s) : LowerChar(t[i + k - 1]) = s[k]

\* s in t
Contains(t, s) == \E i \in 1..(Len(t) + 1) : StartsWithAt(t, i, s)

\* The last position of the longest run of characters of class P that starts
\* at position i of t (i - 1 when the run is empty).
RunEnd(t, i, P(_)) ==
    LET stops == {j \in i..Len(t) : ~P(t[j])}
    IN  IF stops = {} THEN Max(Len(t), i - 1) ELSE SetMin(stops) - 1

\* The elements of a finite set of integers in ascending order.
Ascending(S) ==
    [k \in 1..Cardinality(S) |-> CHOOSE x \in S : Cardinality({y \in S : y < x}) = k - 1]

\* str.split() for texts of any length: the maximal runs of non-whitespace
\* characters, in order (Split computes the same, one character at a time).
WordList(t) ==
    LET NotSpace(c) == ~IsSpace(c)
        starts == Ascending({i \in 1..Len(t) : NotSpace(t[i]) /\ (i = 1 \/ IsSpace(t[i - 1]))})
    IN  [k \in 1..Len(starts) |-> SubSeq(t, starts[k], RunEnd(t, starts[k], NotSpace))]

\* str.split(sep) from position from on: the pieces between the occurrences
\* of sep, found left to right without overlap.
RECURSIVE SplitOnFrom(_, _, _)
SplitOnFrom(t, sep, from) ==
    LET hits == {i \in from..(Len(t) - Len(sep) + 1) : StartsWithAt(t, i, sep)}
    IN  IF hits = {} THEN <<SubSeq(t, from, Len(t))>>
        ELSE <<SubSeq(t, from, SetMin(hits) - 1)>>
                 \o SplitOnFrom(t, sep, SetMin(hits) + Len(sep))

\* str.split(sep).  The occurrences of a separator of one character cannot
\* overlap, so the pieces are cut at all of them.
SplitOn(t, sep) ==
    IF Len(sep) = 1
    THEN LET cuts == <<0>> \o Ascending({i \in 1..Len(t) : t[i] = sep[1]}) \o <<Len(t) + 1>>
         IN  [k \in 1..(Len(cuts) - 1) |-> SubSeq(t, cuts[k] + 1, cuts[k + 1] - 1)]
    ELSE SplitOnFrom(t, sep, 1)

\* ------------------------------------------------------- _extract_sections
Section(title, content, start_page, end_page, level) ==
    [title |-> title, content |-> content, start_page |-> start_page,
     end_page |-> end_page, level |-> level]

\* re.match(r'^\s*(\d+\.?\s+[A-Z][a-zA-Z\s]+)', l) for a stripped line l
NumberedHeader(l) ==
    LET d == RunEnd(l, 1, IsDigit)
        dot == IF d < Len(l) /\ l[d + 1] = "." THEN d + 1 ELSE d
        w == RunEnd(l, dot + 1, IsSpace)
    IN  /\ d >= 1
        /\ w >= dot + 1
        /\ w + 2 <= Len(l)
        /\ IsUpper(l[w + 1])
        /\ (IsAlpha(l[w + 2]) \/ IsSpace(l[w + 2]))

\* re.match(r'^\s*([A-Z][A-Z\s]{5,})', l) for a stripped line l
CapitalHeader(l) ==
    /\ Len(l) >= 6
    /\ IsUpper(l[1])
    /\ \A i \in 2..6 : IsUpper(l[i]) \/ IsSpace(l[i])

\* Some pattern of section_patterns matches line.strip().
IsSectionHeader(line) ==
    NumberedHeader(Strip(line)) \/ CapitalHeader(Strip(line))

\* The page number given to the section closed by the end of the document,
\* counted from 1.
LastPage_OneBased(pts) == Len(pts)

\* start_page = end_page = len(page_texts) - 1
LastPage(pts) == Len(pts) - 1

\* The section the header found on page page_num closes.
ClosedSection(title, content, page_num) ==
    Section(title, Join(content, <<"\n">>), page_num, page_num, 1)

\* One line of the inner loop, a header line also entering the content of the
\* section it opens.
SectionsLine_KeepHeader(st, line, page_num) ==
    IF IsSectionHeader(line)
    THEN [sections |->
              IF st.current_section # <<>>
              THEN Append(st.sections,
                          ClosedSection(st.current_section, st.current_content, page_num))
              ELSE st.sections,
          current_section |-> Strip(line),
          current_content |-> <<line>>]
    ELSE IF st.current_section # <<>>
         THEN [st EXCEPT !.current_content = Append(@, line)]
         ELSE st

\* One line of the inner loop.  st holds sections, current_section and
\* current_content; current_section is only ever tested for truth, so None
\* is held as the empty string.
SectionsLine(st, line, page_num) ==
    IF IsSectionHeader(line)
    THEN [sections |->
              IF st.current_section # <<>>
              THEN Append(st.sections,
                          ClosedSection(st.current_section, st.current_content, page_num))
              ELSE st.sections,
          current_section |-> Strip(line),
          current_content |-> <<>>]
    ELSE IF st.current_section # <<>>
         THEN [st EXCEPT !.current_content = Append(@, line)]
         ELSE st

RECURSIVE SectionsLines(_, _, _, _)
SectionsLines(st, lines, k, page_num) ==
    IF k > Len(lines) THEN st
    ELSE SectionsLines(SectionsLine(st, lines[k], page_num), lines, k + 1, page_num)

\* The outer loop from page number page_num (counted from 0) on.
RECURSIVE SectionsPages(_, _, _)
SectionsPages(st, pts, page_num) ==
    IF page_num >= Len(pts) THEN st
    ELSE SectionsPages(SectionsLines(st, SplitOn(pts[page_num + 1], <<"\n">>), 1, page_num),
                       pts, page_num + 1)

ExtractSections(pts) ==
    LET st == SectionsPages([sections |-> <<>>, current_section |-> <<>>,
                             current_content |-> <<>>], pts, 0)
    IN  IF st.current_section # <<>>
        THEN Append(st.sections,
                    Section(st.current_section, Join(st.current_content, <<"\n">>),
                            LastPage(pts), LastPage(pts), 1))
        ELSE st.sections

\* ---------------------------------------------------------- _extract_title
\* any(x in pdf_title.lower() for x in ['.dvi', '.tex', 'untitled', 'document', '\\'])
LooksLikeFilePath(t) ==
    \E x \in {Chars(".dvi"), Chars(".tex"), Chars("untitled"), Chars("document"), Chars("\\")} :
        Contains(Lower(t), x)

\* The metadata title is used: it is present, not empty, not a file path or
\* generic after strip(), and longer than 10 characters.
HintAccepted(md) ==
    /\ "pdf_title" \in DOMAIN md
    /\ md["pdf_title"] # <<>>
    /\ ~LooksLikeFilePath(Strip(md["pdf_title"]))
    /\ Len(Strip(md["pdf_title"])) > 10

\* lines = [line.strip() for line in text.split('\n') if line.strip()]
StrippedLines(t) ==
    LET raw == SplitOn(t, <<"\n">>)
        kept == SelectSeq(raw, LAMBDA line : Strip(line) # <<>>)
    IN  [i \in 1..Len(kept) |-> Strip(kept[i])]

\* re.match(r'\d{4}\).*,\s*\d+:\d+,\s*\d+-\d+', l): the part after a comma at c
CitationTail(l, c) ==
    LET w1 == RunEnd(l, c + 1, IsSpace)
        d1 == RunEnd(l, w1 + 1, IsDigit)
        d2 == RunEnd(l, d1 + 2, IsDigit)
        w2 == RunEnd(l, d2 + 2, IsSpace)
        d3 == RunEnd(l, w2 + 1, IsDigit)
    IN  /\ d1 >= w1 + 1
        /\ StartsWithAt(l, d1 + 1, <<":">>)
        /\ d2 >= d1 + 2
        /\ StartsWithAt(l, d2 + 1, <<",">>)
        /\ d3 >= w2 + 1
        /\ StartsWithAt(l, d3 + 1, <<"-">>)
        /\ d3 + 2 <= Len(l) /\ IsDigit(l[d3 + 2])

CitationFormat(l) ==
    /\ RunEnd(l, 1, IsDigit) >= 4
    /\ StartsWithAt(l, 5, <<")">>)
    /\ \E c \in 6..Len(l) : l[c] = "," /\ CitationTail(l, c)

\* re.match(r'^\w+\s*&\s*\w+$', l)
SimpleNames(l) ==
    LET w1 == RunEnd(l, 1, IsWordChar)
        s1 == RunEnd(l, w1 + 1, IsSpace)
        s2 == RunEnd(l, s1 + 2, IsSpace)
        w2 == RunEnd(l, s2 + 1, IsWordChar)
    IN  /\ w1 >= 1
        /\ StartsWithAt(l, s1 + 1, <<"&">>)
        /\ w2 >= s2 + 1
        /\ w2 = Len(l)

\* The prefixes of _extract_title's skip_patterns that are plain text
\* (re.match anchors every pattern at the start of the line).
TitleSkipPrefixes ==
    {Chars("full terms"), Chars("http://"), Chars("https://"), Chars("issn:"), Chars("doi:"),
     Chars("copyright"), Chars("published"), Chars("to cite"), Chars("to link"),
     Chars("article views"), Chars("download"), Chars("journal homepage"), Chars("submit your"),
     Chars("citing articles"), Chars("catalysis reviews"), Chars("braz j med biol res"),
     Chars("www.")}

\* any(re.match(pattern, l) for pattern in skip_patterns), l in lower case
TitleSkip(l) ==
    \/ \E p \in TitleSkipPrefixes : StartsWithAt(l, 1, p)
    \/ (l # <<>> /\ RunEnd(l, 1, IsDigit) = Len(l))
    \/ (StartsWithAt(l, 1, Chars("page ")) /\ Len(l) >= 6 /\ IsDigit(l[6]))
    \/ l = Chars("science and engineering")
    \/ LET d == RunEnd(l, 1, IsDigit)
           w == RunEnd(l, d + 1, IsSpace)
       IN  d >= 1 /\ w >= d + 1 /\ StartsWithAt(l, w + 1, Chars("braz j"))
    \/ (StartsWithAt(l, 1, <<"(">>) /\ RunEnd(l, 2, IsDigit) >= 5
            /\ StartsWithAt(l, 6, <<")">>))
    \/ CitationFormat(l)
    \/ SimpleNames(l)

\* sum(c.isdigit() or not c.isalnum() for c in line)
NonLetters(line) == Cardinality({i \in 1..Len(line) : ~IsAlpha(line[i])})

\* The tests a line passes to enter potential_titles.
IsPotentialTitle(line) ==
    /\ ~TitleSkip(Lower(line))
    /\ ~(Len(line) < 15 \/ Len(line) > 200)
    /\ ~(2 * NonLetters(line) > Len(line))

\* The indices (from 0) of the lines of potential_titles: among lines[:50].
PotentialTitles(lines) ==
    Ascending({i \in 0..(Min(Len(lines), 50) - 1) : IsPotentialTitle(lines[i + 1])})

\* re.search(r'[A-Z]\.[A-Z]\.?\s+[A-Z]', l)
HasInitials(l) ==
    \E i \in 1..Len(l) :
        /\ IsUpper(l[i])
        /\ StartsWithAt(l, i + 1, <<".">>)
        /\ i + 2 <= Len(l) /\ IsUpper(l[i + 2])
        /\ LET dot == IF StartsWithAt(l, i + 3, <<".">>) THEN i + 3 ELSE i + 2
               w == RunEnd(l, dot + 1, IsSpace)
           IN  w >= dot + 1 /\ w + 1 <= Len(l) /\ IsUpper(l[w + 1])

\* str.count(c)
CountChar(l, c) == Cardinality({i \in 1..Len(l) : l[i] = c})

\* The continuation line looks like an author list.
LooksLikeAuthors(l) ==
    /\ Contains(l, <<",">>)
    /\ \/ HasInitials(l)
       \/ Contains(l, <<"&">>) \/ Contains(Lower(l), Chars(" and "))
       \/ CountChar(l, ",") >= 3

TitleStopWords ==
    {Chars("abstract"), Chars("introduction"), Chars("keywords"), Chars("doi:"), Chars("issn"),
     Chars("university"), Chars("department"), Chars("laboratory"), Chars("correspondence")}

\* str.isupper(): some cased character and no lower-case one
IsUpperStr(w) == (\E i \in 1..Len(w) : IsUpper(w[i])) /\ (\A i \in 1..Len(w) : ~IsLower(w[i]))

\* single_letter_words < len(words) * 0.4
MostlyFullWords(l) ==
    LET ws == WordList(l)
        single == Cardinality({i \in 1..Len(ws) : Len(ws[i]) <= 2 /\ IsUpperStr(ws[i])})
    IN  5 * single < 2 * Len(ws)

\* The continuation loop from line next_idx (counted from 0) up to stop.
RECURSIVE Continuation(_, _, _, _, _)
Continuation(lines, next_idx, stop, candidate_title, lines_added) ==
    IF next_idx >= stop \/ lines_added >= 3 THEN candidate_title
    ELSE LET next_line == Strip(lines[next_idx + 1])
         IN  IF Len(next_line) < 5
             THEN Continuation(lines, next_idx + 1, stop, candidate_title, lines_added)
             ELSE IF \/ TitleSkip(Lower(next_line))
                     \/ LooksLikeAuthors(next_line)
                     \/ next_line[Len(next_line)] = "."
                     \/ \E x \in TitleStopWords : Contains(Lower(next_line), x)
                     \/ ~MostlyFullWords(next_line)
                  THEN candidate_title
                  ELSE Continuation(lines, next_idx + 1, stop,
                                    candidate_title \o <<" ">> \o next_line,
                                    lines_added + 1)

\* len(words) >= 3 and at least 2 words that start with a capital
LooksLikeTitle(title) ==
    LET ws == WordList(title)
    IN  /\ Len(ws) >= 3
        /\ Cardinality({i \in 1..Len(ws) : IsUpper(ws[i][1])}) >= 2

\* The candidate built from the potential title at line idx.
CandidateTitle(lines, idx) ==
    Continuation(lines, idx + 1, Min(idx + 4, Len(lines)), lines[idx + 1], 0)

\* title_candidates: built from the potential titles up to line 15 that look
\* like a title, kept when the candidate has 10 to 200 characters.
TitleCandidates(lines) ==
    LET from == SelectSeq(PotentialTitles(lines),
                          LAMBDA idx : idx <= 15 /\ LooksLikeTitle(lines[idx + 1]))
        built == [k \in 1..Len(from) |-> CandidateTitle(lines, from[k])]
    IN  SelectSeq(built, LAMBDA c : 10 <= Len(c) /\ Len(c) <= 200)

\* The score without the penalty for the position.
TitleScore_NoPenalty(i, title) == Len(title)

\* score = len(title) - (i * 5), i counted from 0
TitleScore(i, title) == Len(title) - (i * 5)

\* list.sort(reverse=True, key=lambda x: x[0]): stable, so an entry goes
\* after the entries of equal score that were before it.
RECURSIVE SortByScore(_)
SortByScore(scored) ==
    IF scored = <<>> THEN <<>>
    ELSE LET last == scored[Len(scored)]
             front == SortByScore(SubSeq(scored, 1, Len(scored) - 1))
             ahead == SelectSeq(front, LAMBDA e : e[1] >= last[1])
             behind == SelectSeq(front, LAMBDA e : e[1] < last[1])
         IN  ahead \o <<last>> \o behind

\* The fallback when there is no candidate: the first potential title.
TitleFallback(lines) ==
    IF PotentialTitles(lines) # <<>> THEN lines[PotentialTitles(lines)[1] + 1]
    ELSE Chars("Untitled Paper")

ExtractTitle(t, md) ==
    IF HintAccepted(md) THEN Strip(md["pdf_title"])
    ELSE LET lines == StrippedLines(t)
             title_candidates == TitleCandidates(lines)
             scored == [k \in 1..Len(title_candidates) |->
                           <<TitleScore(k - 1, title_candidates[k]), title_candidates[k]>>]
         IN  IF title_candidates # <<>> THEN SortByScore(scored)[1][2]
             ELSE TitleFallback(lines)

\* -------------------------------------------------------- _extract_authors
\* The prefixes of _extract_authors' skip_patterns.
AuthorSkipPrefixes ==
    {Chars("full terms"), Chars("http://"), Chars("https://"), Chars("issn:"), Chars("doi:"),
     Chars("copyright"), Chars("journal"), Chars("published"), Chars("to cite"),
     Chars("article views")}

\* any(re.match(pattern, l) for pattern in skip_patterns), l in lower case
AuthorSkip(l) ==
    \/ \E p \in AuthorSkipPrefixes : StartsWithAt(l, 1, p)
    \/ (l # <<>> /\ RunEnd(l, 1, IsDigit) = Len(l))

\* str.replace(old, new)
Replace(t, old, new) == Join(SplitOn(t, old), new)

\* sum(c.isalpha() or c.isspace() for c in s) / len(s) > 0.7
MostlyLetters(s) ==
    10 * Cardinality({i \in 1..Len(s) : IsAlpha(s[i]) \/ IsSpace(s[i])}) > 7 * Len(s)

\* re.search(r'\d{4}', s)
HasYear(s) == \E i \in 1..Len(s) : RunEnd(s, i, IsDigit) >= i + 3

\* The tests a name passes to be appended to authors.
IsAuthorName(author) ==
    /\ 5 <= Len(author) /\ Len(author) <= 80
    /\ Contains(author, <<" ">>)
    /\ ~(Contains(Lower(author), Chars("http")) \/ HasYear(author))
    /\ MostlyLetters(author)

\* (has_comma and has_and) or (has_comma and has_multiple_caps)
AuthorIndicators(line) ==
    LET has_comma == Contains(line, <<",">>)
        has_and == Contains(Lower(line), Chars(" and ")) \/ Contains(line, Chars(" & "))
        has_multiple_caps == Cardinality({i \in 1..Len(line) : IsUpper(line[i])}) >= 3
    IN  (has_comma /\ has_and) \/ (has_comma /\ has_multiple_caps)

\* The names of a line, split at ' and ', ' & ' and ',', that pass the tests.
AuthorNames(line) ==
    LET author_text == Replace(Replace(line, Chars(" and "), <<",">>), Chars(" & "), <<",">>)
        parts == SplitOn(author_text, <<",">>)
        potential_authors == [k \in 1..Len(parts) |-> Strip(parts[k])]
    IN  SelectSeq(potential_authors, IsAuthorName)

\* The first loop: the names of the first line, among lines[:60] and after
\* line 5 (if i > 5), that is not skipped, has 5 to 250 characters, shows the
\* indicators and yields a name.
AuthorsByPattern(lines) ==
    LET hits == {i \in 6..(Min(Len(lines), 60) - 1) :
                    /\ ~AuthorSkip(Lower(lines[i + 1]))
                    /\ ~(Len(lines[i + 1]) < 5 \/ Len(lines[i + 1]) > 250)
                    /\ AuthorIndicators(lines[i + 1])
                    /\ AuthorNames(lines[i + 1]) # <<>>}
    IN  IF hits = {} THEN <<>> ELSE AuthorNames(lines[SetMin(hits) + 1])

\* The second loop: the first line of lines[5:40] with 2 to 8 capitalised
\* words of more than one character that is mostly letters.
AuthorsByCapitals(lines) ==
    LET capsWords(line) ==
            Cardinality({k \in 1..Len(WordList(line)) :
                            IsUpper(WordList(line)[k][1]) /\ Len(WordList(line)[k]) > 1})
        hits == {i \in 5..(Min(Len(lines), 40) - 1) :
                    /\ 2 <= capsWords(lines[i + 1]) /\ capsWords(lines[i + 1]) <= 8
                    /\ MostlyLetters(lines[i + 1])}
    IN  IF hits = {} THEN <<>> ELSE <<lines[SetMin(hits) + 1]>>

ExtractAuthors(t) ==
    LET lines == StrippedLines(t)
        authors == IF AuthorsByPattern(lines) # <<>> THEN AuthorsByPattern(lines)
                   ELSE AuthorsByCapitals(lines)
    IN  IF authors # <<>> THEN authors ELSE <<Chars("Unknown Authors")>>

\* ------------------------------------------------------- _extract_abstract
\* The pattern (?i)abstract\s*\n matches from position i: the position of the
\* last newline of the whitespace that follows the word, else 0.
HeadingEnd(t, word, i) ==
    IF ~StartsWithAtNoCase(t, i, word) THEN 0
    ELSE LET w == RunEnd(t, i + Len(word), IsSpace)
             nls == {j \in (i + Len(word))..w : t[j] = "\n"}
         IN  IF nls = {} THEN 0 ELSE SetMax(nls)

\* The lookahead \n\s*\n\s*(?:1\.|introduction|keywords) holds at position p.
AbstractStop(t, p) ==
    /\ p <= Len(t) /\ t[p] = "\n"
    /\ LET w == RunEnd(t, p + 1, IsSpace)
       IN  /\ \E j \in (p + 1)..w : t[j] = "\n"
           /\ \E kw \in {Chars("1."), Chars("introduction"), Chars("keywords")} :
                  StartsWithAtNoCase(t, w + 1, kw)

\* re.sub(r'\s+', ' ', s)
CollapseWhitespace(s) ==
    LET marked == [i \in 1..Len(s) |->
                      IF ~IsSpace(s[i]) THEN s[i]
                      ELSE IF i > 1 /\ IsSpace(s[i - 1]) THEN "" ELSE " "]
    IN  SelectSeq(marked, LAMBDA c : c # "")

\* The paragraph looked for by the fallback, cut after 100 characters.
FirstParagraph_Cut100(ps) == PySlice(ps[1], 0, 100)

\* paragraphs[0][:1000]
FirstParagraph(ps) == PySlice(ps[1], 0, 1000)

\* The paragraphs kept whatever their length.
LongParagraphs_Any(t) ==
    LET pieces == SplitOn(t, <<"\n", "\n">>)
    IN  [k \in 1..Len(pieces) |-> Strip(pieces[k])]

\* paragraphs = [p.strip() for p in text.split('\n\n') if len(p.strip()) > 100]
LongParagraphs(t) ==
    LET pieces == SplitOn(t, <<"\n", "\n">>)
        kept == SelectSeq(pieces, LAMBDA p : Len(Strip(p)) > 100)
    IN  [k \in 1..Len(kept) |-> Strip(kept[k])]

ExtractAbstract(t) ==
    LET starts == {i \in 1..Len(t) : HeadingEnd(t, Chars("abstract"), i) > 0}
    IN  IF starts # {}
        THEN LET g == HeadingEnd(t, Chars("abstract"), SetMin(starts)) + 1
                 stop == SetMin({p \in g..(Len(t) + 1) : p = Len(t) + 1 \/ AbstractStop(t, p)})
             IN  CollapseWhitespace(Strip(SubSeq(t, g, stop - 1)))
        ELSE IF LongParagraphs(t) # <<>> THEN FirstParagraph(LongParagraphs(t))
             ELSE Chars("No abstract found")

\* ------------------------------------------------------ _extract_equations
\* re.findall(open(.*?)close, t, re.DOTALL) from position from on: the
\* groups of the matches, found left to right, each as short as possible.
RECURSIVE FindAllFrom(_, _, _, _)
FindAllFrom(t, open, close, from) ==
    LET opens == {i \in from..Len(t) : StartsWithAt(t, i, open)}
    IN  IF opens = {} THEN <<>>
        ELSE LET i == SetMin(opens)
                 closes == {j \in (i + Len(open))..Len(t) : StartsWithAt(t, j, close)}
             IN  IF closes = {} THEN <<>>
                 ELSE <<SubSeq(t, i + Len(open), SetMin(closes) - 1)>>
                          \o FindAllFrom(t, open, close, SetMin(closes) + Len(close))

FindAll(t, open, close) == FindAllFrom(t, open, close, 1)

\* The delimiters of latex_patterns, in order.
LatexPatterns ==
    << <<Chars("$$"), Chars("$$")>>,
       <<Chars("$"), Chars("$")>>,
       <<Chars("\\begin{equation}"), Chars("\\end{equation}")>>,
       <<Chars("\\begin{align}"), Chars("\\end{align}")>> >>

\* [m.strip() for m in matches if m.strip()]
StrippedNonEmpty(ms) ==
    LET kept == SelectSeq(ms, LAMBDA m : Strip(m) # <<>>)
    IN  [k \in 1..Len(kept) |-> Strip(kept[k])]

\* equations after the loop over latex_patterns
AllEquations(t) ==
    LET found(k) == StrippedNonEmpty(FindAll(t, LatexPatterns[k][1], LatexPatterns[k][2]))
    IN  found(1) \o found(2) \o found(3) \o found(4)

\* list(set(xs))[:n]: the first n of the distinct elements of xs, in the
\* order the set iterates them, which the language leaves open.
ListOfSet(xs, n) ==
    LET S == Range(xs)
        m == Min(Cardinality(S), n)
    IN  {s \in [1..m -> S] : \A i, j \in 1..m : s[i] = s[j] => i = j}

\* The lists _extract_equations may return.
ExtractEquations(t) == ListOfSet(AllEquations(t), 50)

\* --------------------------------------------------------- _extract_tables
\* re.findall(r'Table\s+\d+', t, re.IGNORECASE) from position from on
RECURSIVE TableRefsFrom(_, _)
TableRefsFrom(t, from) ==
    LET ends(i) == RunEnd(t, RunEnd(t, i + 5, IsSpace) + 1, IsDigit)
        hits == {i \in from..Len(t) :
                    /\ StartsWithAtNoCase(t, i, Chars("table"))
                    /\ RunEnd(t, i + 5, IsSpace) >= i + 5
                    /\ ends(i) >= RunEnd(t, i + 5, IsSpace) + 1}
    IN  IF hits = {} THEN <<>>
        ELSE <<SubSeq(t, SetMin(hits), ends(SetMin(hits)))>>
                 \o TableRefsFrom(t, ends(SetMin(hits)) + 1)

\* The lists _extract_tables may return: list(set(table_refs)).
ExtractTables(t) == ListOfSet(TableRefsFrom(t, 1), Len(t))

\* ----------------------------------------------------- _extract_references
\* The end of a match of \n\[\d+\]|\n\d+\. that starts at position i, else 0.
RefMarkEnd(t, i) ==
    IF ~StartsWithAt(t, i, <<"\n">>) THEN 0
    ELSE LET b == RunEnd(t, i + 2, IsDigit)
             d == RunEnd(t, i + 1, IsDigit)
         IN  IF StartsWithAt(t, i + 1, <<"[">>) /\ b >= i + 2 /\ StartsWithAt(t, b + 1, <<"]">>)
             THEN b + 1
             ELSE IF d >= i + 1 /\ StartsWithAt(t, d + 1, <<".">>) THEN d + 1
             ELSE 0

\* re.split(r'\n\[\d+\]|\n\d+\.', t) from position from on
RECURSIVE RefSplitFrom(_, _)
RefSplitFrom(t, from) ==
    LET marks == {i \in from..Len(t) : RefMarkEnd(t, i) > 0}
    IN  IF marks = {} THEN <<SubSeq(t, from, Len(t))>>
        ELSE <<SubSeq(t, from, SetMin(marks) - 1)>>
                 \o RefSplitFrom(t, RefMarkEnd(t, SetMin(marks)) + 1)

ExtractReferences(t) ==
    LET starts == {i \in 1..Len(t) : \/ HeadingEnd(t, Chars("references"), i) > 0
                                     \/ HeadingEnd(t, Chars("bibliography"), i) > 0}
    IN  IF starts = {} THEN <<>>
        ELSE LET i == SetMin(starts)
                 g == Max(HeadingEnd(t, Chars("references"), i),
                          HeadingEnd(t, Chars("bibliography"), i)) + 1
                 ref_lines == RefSplitFrom(SubSeq(t, g, Len(t)), 1)
                 kept == SelectSeq(ref_lines, LAMBDA r : Len(Strip(r)) > 20)
             IN  PySlice([k \in 1..Len(kept) |-> Strip(kept[k])], 0, 100)

\* ------------------------------------------------------ _parse_with_pymupdf
\* full_text: every page's text followed by "\n\n"
FullText(pts) ==
    IF pts = <<>> THEN <<>>
    ELSE Join(pts, <<"\n", "\n">>) \o <<"\n", "\n">>

\* metadata: num_pages, and the pdf_* keys when the library gave metadata
\* (file_size and filename come from the file system and are left out).
Metadata(pts, pm) ==
    IF pm # <<>>
    THEN [num_pages |-> Len(pts),
          pdf_title |-> Get(pm, "title", <<>>),
          pdf_author |-> Get(pm, "author", <<>>),
          pdf_subject |-> Get(pm, "subject", <<>>),
          pdf_keywords |-> Get(pm, "keywords", <<>>)]
    ELSE [num_pages |-> Len(pts)]

\* ------------------------------------------------------------------ inputs
MaxDocPages == 2
MaxTitleLines == 3
MaxAuthorLines == 2
MaxParagraphs == 2
MaxEquationTokens == 3

\* n copies of the character c
Repeat(c, n) == [i \in 1..n |-> c]

\* The concatenation of a sequence of strings.
Concat(parts) == Join(parts, <<>>)

\* A line that ends a title, candidates of 24, 29 and 30 characters, a line
\* that is no candidate, and a candidate of 100 characters.
TitleLinePool ==
    {Chars("Abstract"),
     Chars("Deep Learning for Graphs"),
     Chars("Methods for Big Data Sets now"),
     Chars("Methods for Big Data Sets anew"),
     Chars("introduction to everything here"),
     Concat(Repeat(Chars("Aa "), 33)) \o <<"A">>}

TitleTexts == {Join(ls, <<"\n">>) : ls \in AllSeqs(TitleLinePool, MaxTitleLines)}

\* The texts tried together with a metadata title: at most one line.
HintTexts == {Join(ls, <<"\n">>) : ls \in AllSeqs(TitleLinePool, 1)}

\* No metadata title, one that is used, one that names a file.
TitleMetadata ==
    {[num_pages |-> 1],
     [num_pages |-> 1, pdf_title |-> Chars("  A Good Title Here  ")],
     [num_pages |-> 1, pdf_title |-> Chars("paper.tex draft one")]}

AuthorLinePool ==
    {Chars("J. Smith, A. Doe"),
     Chars("John Smith and Jane Doe, Bob Lee"),
     Chars("Alice Cooper"),
     Chars("x y"),
     Chars("A Study of Widget Efficiency in Distributed Systems")}

\* The lines of the pool after 0 or 6 lines of a page number.
AuthorTexts ==
    {Join(Repeat(Chars("12"), k) \o ls, <<"\n">>) :
        k \in {0, 6}, ls \in AllSeqs(AuthorLinePool, MaxAuthorLines)}

\* Paragraphs of 10, 100, 101 and 1001 characters, one of 101 characters
\* inside whitespace, and an "Abstract" heading with its text.
ParagraphPool ==
    {Chars("short text"),
     Repeat("c", 100),
     <<"b">> \o Repeat("x", 100),
     Chars(" \t") \o Repeat("d", 101) \o <<" ">>,
     Repeat("e", 1001),
     Chars("Abstract\nWe study x.")}

AbstractTexts == {Join(ps, <<"\n", "\n">>) : ps \in AllSeqs(ParagraphPool, MaxParagraphs)}

SectionPagePool ==
    {<<>>,
     Chars("1. Intro\nab"),
     Chars("cd\n e "),
     Chars("ef\n METHOD \ngh"),
     Chars("2 Results"),
     Chars("1.Intro\nA. B")}

SectionPageLists == AllSeqs(SectionPagePool, MaxPages)

EquationTokens ==
    {Chars("$E=mc^2$"), Chars("$$F=ma$$"), Chars(" and "), Chars("$"),
     Chars("\\begin{equation}a\\end{equation}"), Chars("x")}

EquationTexts == {Concat(ts) : ts \in AllSeqs(EquationTokens, MaxEquationTokens)}

\* Pages of a whole document: an empty page, the example of the
\* specification, a page with a header, a table, an equation and references.
ParsePagePool ==
    {<<>>,
     Chars("Journal of Foo\nA Study of Widget Efficiency in Distributed Systems\nJ. Smith, A. Doe\nAbstract"),
     Chars("1. Intro\nSee Table 1 and $x$.\nReferences\n[1] A. Author, A long enough title, 2020.")}

\* doc.metadata of the library: none, a title, an author only.
PdfMetadata ==
    {<<>>,
     [title |-> Chars("  A Good Title Here  ")],
     [author |-> Chars("A. Doe")]}

\* A direct call of one extractor: nothing read from a PDF.
DirectCall(method) ==
    /\ p_call = method
    /\ pdf_metadata = <<>>
    /\ extract_tables = TRUE
    /\ doc = <<>>

\* PDFParser().parse_pdf(path) for a PDF with the pages page_texts
InitParsePdf ==
    /\ p_call = "parse_pdf"
    /\ page_texts \in AllSeqs(ParsePagePool, MaxDocPages)
    /\ pdf_metadata \in PdfMetadata
    /\ extract_tables \in BOOLEAN
    /\ full_text = <<>> /\ metadata = <<>>
    /\ ppc = "start"
    /\ doc = <<>>

InitExtractTitle ==
    /\ DirectCall("_extract_title")
    /\ page_texts = <<>>
    /\ metadata \in TitleMetadata
    /\ full_text \in IF "pdf_title" \in DOMAIN metadata THEN HintTexts ELSE TitleTexts
    /\ ppc = "title"

InitExtractAuthors ==
    /\ DirectCall("_extract_authors")
    /\ page_texts = <<>>
    /\ full_text \in AuthorTexts
    /\ metadata = <<>>
    /\ ppc = "authors"

InitExtractAbstract ==
    /\ DirectCall("_extract_abstract")
    /\ page_texts = <<>>
    /\ full_text \in AbstractTexts
    /\ metadata = <<>>
    /\ ppc = "abstract"

InitExtractSections ==
    /\ DirectCall("_extract_sections")
    /\ page_texts \in SectionPageLists
    /\ full_text = <<>>
    /\ metadata = <<>>
    /\ ppc = "sections"

InitExtractEquations ==
    /\ DirectCall("_extract_equations")
    /\ page_texts = <<>>
    /\ full_text \in EquationTexts
    /\ metadata = <<>>
    /\ ppc = "equations"

InitParser ==
    /\ ChunkerOff /\ CleanerOff /\ SessionsOff
    /\ \/ InitParsePdf
       \/ InitExtractTitle
       \/ InitExtractAuthors
       \/ InitExtractAbstract
       \/ InitExtractSections
       \/ InitExtractEquations

\* ----------------------------------------------------------------- actions
parserInputs == <<p_call, page_texts, pdf_metadata, extract_tables>>

\* The position after a step: the next line of _parse_with_pymupdf, or the
\* return of a direct call.
After(next) == IF p_call = "parse_pdf" THEN next ELSE "done"

\* The field computed by a step is added to the fields computed so far.
SetField(name, value, next) ==
    /\ doc' = doc @@ (name :> value)
    /\ ppc' = After(next)
    /\ UNCHANGED <<chunkerVars, cleanerVars, sessionVars, parserInputs, full_text, metadata>>

\* The loop over the pages, and the metadata.
ReadPages ==
    /\ ppc = "start"
    /\ full_text' = FullText(page_texts)
    /\ metadata' = Metadata(page_texts, pdf_metadata)
    /\ ppc' = "title"
    /\ UNCHANGED <<chunkerVars, cleanerVars, sessionVars, parserInputs, doc>>

StepTitle ==
    /\ ppc = "title"
    /\ SetField("title", ExtractTitle(full_text, metadata), "authors")

StepAuthors ==
    /\ ppc = "authors"
    /\ SetField("authors", ExtractAuthors(full_text), "abstract")

StepAbstract ==
    /\ ppc = "abstract"
    /\ SetField("abstract", ExtractAbstract(full_text), "sections")

StepSections ==
    /\ ppc = "sections"
    /\ SetField("sections", ExtractSections(page_texts), "equations")

StepEquations ==
    /\ ppc = "equations"
    /\ \E equations \in ExtractEquations(full_text) :
          SetField("equations", equations, "tables")

\* tables = self._extract_tables(full_text) if self.extract_tables else []
StepTables ==
    /\ ppc = "tables"
    /\ \E tables \in (IF extract_tables THEN ExtractTables(full_text) ELSE {<<>>}) :
          SetField("tables", tables, "references")

StepReferences ==
    /\ ppc = "references"
    /\ SetField("references", ExtractReferences(full_text), "return")

\* return Document(...): extract_images is left False, so figures is [].
ReturnDocument ==
    /\ ppc = "return"
    /\ doc' = doc @@ [figures |-> <<>>, full_text |-> full_text, metadata |-> metadata]
    /\ ppc' = "done"
    /\ UNCHANGED <<chunkerVars, cleanerVars, sessionVars, parserInputs, full_text, metadata>>

NextParser ==
    \/ ReadPages
    \/ StepTitle
    \/ StepAuthors
    \/ StepAbstract
    \/ StepSections
    \/ StepEquations
    \/ StepTables
    \/ StepReferences
    \/ ReturnDocument

SpecParser == InitParser /\ [][NextParser]_vars

\* A field of the Document is computed.
Has(field) == field \in DOMAIN doc

\* ------------------------------------------------------------------ claims
\* The lines of the pages in reading order, each with the number of its page.
RECURSIVE PageLines(_)
PageLines(pts) ==
    IF pts = <<>> THEN <<>>
    ELSE LET lines == SplitOn(pts[Len(pts)], <<"\n">>)
         IN  PageLines(SubSeq(pts, 1, Len(pts) - 1))
                 \o [k \in 1..Len(lines) |-> [page |-> Len(pts) - 1, line |-> lines[k]]]

\* The positions of the header lines among the lines of the pages.
HeaderPositions(pts) ==
    Ascending({i \in 1..Len(PageLines(pts)) : IsSectionHeader(PageLines(pts)[i].line)})

\* The position after the last line of the section opened by the k-th header.
SectionEnd(pts, k) ==
    IF k < Len(HeaderPositions(pts)) THEN HeaderPositions(pts)[k + 1]
    ELSE Len(PageLines(pts)) + 1

\* C12: _extract_sections returns one section per header line, in order; the
\* content of a section is, in order, the lines between its header and the
\* next header (or the end of the document); lines before the first header
\* and header lines are in no content.
C12_PartitionByHeader ==
    Has("sections") =>
        LET ls == PageLines(page_texts)
            hs == HeaderPositions(page_texts)
        IN  /\ Len(doc.sections) = Len(hs)
            /\ \A k \in 1..Len(hs) :
                  /\ doc.sections[k].title = Strip(ls[hs[k]].line)
                  /\ doc.sections[k].content =
                        Join([j \in 1..(SectionEnd(page_texts, k) - hs[k] - 1) |->
                                  ls[hs[k] + j].line], <<"\n">>)

C12_Witness ==
    /\ Has("sections")
    /\ Len(doc.sections) >= 2
    /\ Len(page_texts) >= 2
    /\ HeaderPositions(page_texts)[1] > 1
    /\ \E k \in 1..Len(doc.sections) : Contains(doc.sections[k].content, <<"\n">>)

\* C13: each section has start_page = the page of its header line and
\* end_page = the page of the next header, or the last page for the final
\* section.
C13_PagesOpenedClosed ==
    Has("sections") =>
        LET ls == PageLines(page_texts)
            hs == HeaderPositions(page_texts)
        IN  \A k \in 1..Min(Len(hs), Len(doc.sections)) :
               /\ doc.sections[k].start_page = ls[hs[k]].page
               /\ doc.sections[k].end_page =
                     IF k < Len(hs) THEN ls[hs[k + 1]].page ELSE Len(page_texts) - 1

\* C14: the sections are in page order and each has
\* 0 <= start_page <= end_page < number of pages and level = 1.
C14_PageOrder ==
    Has("sections") =>
        \A k \in 1..Len(doc.sections) :
            /\ 0 <= doc.sections[k].start_page
            /\ doc.sections[k].start_page <= doc.sections[k].end_page
            /\ doc.sections[k].end_page < Len(page_texts)
            /\ doc.sections[k].level = 1
            /\ k > 1 => doc.sections[k - 1].start_page <= doc.sections[k].start_page

C14_Witness ==
    /\ Has("sections")
    /\ Len(doc.sections) >= 3
    /\ doc.sections[1].start_page < doc.sections[2].start_page
    /\ doc.sections[2].start_page = doc.sections[3].start_page

\* The title is computed from the text: the metadata title is not used.
TitleFromText == Has("title") /\ ~HintAccepted(metadata)

\* The candidate at position k (from 1) beats the one at position j: a
\* higher score, or the same score and an earlier position.
Beats(cands, k, j) ==
    LET score(i) == Len(cands[i]) - 5 * (i - 1)
    IN  score(k) > score(j) \/ (score(k) = score(j) /\ k <= j)

\* C15: without an accepted metadata hint, the title is the candidate of 10
\* to 200 characters with the highest score length - 5 * position (ties to
\* the earlier one); without a candidate, the earliest line that passed the
\* line filters; without such a line, "Untitled Paper".
C15_TitleSelection ==
    TitleFromText =>
        LET lines == StrippedLines(full_text)
            cands == TitleCandidates(lines)
            passed == {i \in 1..Min(Len(lines), 50) : IsPotentialTitle(lines[i])}
        IN  IF cands # <<>>
            THEN \E k \in 1..Len(cands) :
                    /\ doc.title = cands[k]
                    /\ \A j \in 1..Len(cands) : Beats(cands, k, j)
                    /\ 10 <= Len(doc.title) /\ Len(doc.title) <= 200
            ELSE IF passed # {} THEN doc.title = lines[SetMin(passed)]
            ELSE doc.title = Chars("Untitled Paper")

\* Two candidates of equal score, something after them, and the earlier one
\* returned.
C15_Witness ==
    /\ TitleFromText
    /\ LET cands == TitleCandidates(StrippedLines(full_text))
       IN  /\ Len(cands) >= 2
           /\ Len(cands[1]) = Len(cands[2]) - 5
           /\ doc.title = cands[1]

\* The input lines of the specification's example, as the only page.
ExamplePage ==
    Join(<<Chars("Journal of Foo"),
           Chars("A Study of Widget Efficiency in Distributed Systems"),
           Chars("J. Smith, A. Doe"),
           Chars("Abstract")>>, <<"\n">>)

\* C16: for the example lines, the title is the second line and the authors
\* are ["J. Smith", "A. Doe"].
C16_Example ==
    (page_texts = <<ExamplePage>> /\ TitleFromText /\ Has("authors")) =>
        /\ doc.title = Chars("A Study of Widget Efficiency in Distributed Systems")
        /\ doc.authors = <<Chars("J. Smith"), Chars("A. Doe")>>

\* Every page of the PDF is empty, and there is no accepted metadata title.
EmptyDocument ==
    /\ p_call = "parse_pdf"
    /\ \A i \in 1..Len(page_texts) : page_texts[i] = <<>>
    /\ ~HintAccepted(Metadata(page_texts, pdf_metadata))

\* C17: for empty page texts every extractor gives its sentinel or an empty
\* collection, and the document is built.
C17_EmptyPages ==
    EmptyDocument =>
        /\ Has("title") => doc.title = Chars("Untitled Paper")
        /\ Has("authors") => doc.authors = <<Chars("Unknown Authors")>>
        /\ Has("abstract") => doc.abstract = Chars("No abstract found")
        /\ Has("sections") => doc.sections = <<>>
        /\ Has("equations") => doc.equations = <<>>
        /\ Has("tables") => doc.tables = <<>>
        /\ Has("references") => doc.references = <<>>
        /\ ppc = "done" => DOMAIN doc = {"title", "authors", "abstract", "sections",
                                         "equations", "figures", "tables",
                                         "references", "full_text", "metadata"}

C17_Witness ==
    /\ EmptyDocument
    /\ Len(page_texts) >= 2
    /\ extract_tables
    /\ ppc = "done"
    /\ doc.title = Chars("Untitled Paper")

\* The text has no "Abstract" heading: nowhere the word, in any case,
\* followed by whitespace up to a line break.
NoAbstractHeading(t) ==
    ~\E i \in 1..Len(t), j \in 1..Len(t) :
        /\ StartsWithAtNoCase(t, i, Chars("abstract"))
        /\ j >= i + 8
        /\ t[j] = "\n"
        /\ \A k \in (i + 8)..(j - 1) : IsSpace(t[k])

\* C18: without an "Abstract" heading, the abstract is the first paragraph
\* (block between blank lines, stripped) of more than 100 characters, cut to
\* at most 1000 characters; without such a paragraph it is "No abstract
\* found"; it is never empty.
C18_AbstractFallback ==
    (Has("abstract") /\ NoAbstractHeading(full_text)) =>
        LET blocks == SplitOn(full_text, <<"\n", "\n">>)
            long == {k \in 1..Len(blocks) : Len(Strip(blocks[k])) > 100}
        IN  /\ doc.abstract # <<>>
            /\ IF long = {} THEN doc.abstract = Chars("No abstract found")
               ELSE LET p == Strip(blocks[SetMin(long)])
                    IN  /\ Len(doc.abstract) = Min(Len(p), 1000)
                        /\ doc.abstract = SubSeq(p, 1, Len(doc.abstract))

\* A paragraph of more than 1000 characters, after a short one, is returned
\* cut to 1000.
C18_Witness ==
    /\ Has("abstract") /\ NoAbstractHeading(full_text)
    /\ Len(doc.abstract) = 1000
    /\ Len(SplitOn(full_text, <<"\n", "\n">>)) >= 2
    /\ Len(SplitOn(full_text, <<"\n", "\n">>)[1]) <= 100

\* C19: for a text that contains "$E=mc^2$" and "$$F=ma$$" the result holds
\* "E=mc^2" and "F=ma", each once, and at most 50 entries.
C19_BothEquations ==
    (/\ Has("equations")
     /\ Contains(full_text, Chars("$E=mc^2$"))
     /\ Contains(full_text, Chars("$$F=ma$$"))) =>
        /\ \E i \in 1..Len(doc.equations) : doc.equations[i] = Chars("E=mc^2")
        /\ \E i \in 1..Len(doc.equations) : doc.equations[i] = Chars("F=ma")
        /\ \A i, j \in 1..Len(doc.equations) :
              doc.equations[i] = doc.equations[j] => i = j
        /\ Len(doc.equations) <= 50

\* ===================================================================
\* TextCleaner (src/src/tools/text_cleaner.py): the text normalizer.
\* A behaviour applies one transform to a text, then to its own result.
\* ===================================================================
MaxCleanLen == 6
MaxCalls == 2
MaxBreakLen == 5
MaxBlankLen == 3
MaxCommands == 2

\* re.sub of a run of the character c, at least min long, by min of them:
\* a c stays unless the min characters before it are all c.
CollapseRuns(t, c, min) ==
    LET marked == [i \in 1..Len(t) |->
                      IF t[i] = c /\ i > min /\ (\A k \in (i - min)..(i - 1) : t[k] = c)
                      THEN "" ELSE t[i]]
    IN  SelectSeq(marked, LAMBDA x : x # "")

\* lines = [line.strip() for line in text.split('\n')]; '\n'.join(lines)
StripLines(t) ==
    LET lines == SplitOn(t, <<"\n">>)
    IN  Join([k \in 1..Len(lines) |-> Strip(lines[k])], <<"\n">>)

\* normalize_whitespace: ' +' to ' ', '\n\n+' to '\n\n', every line
\* stripped, the text stripped.
NormalizeWhitespace(t) ==
    Strip(StripLines(CollapseRuns(CollapseRuns(t, " ", 1), "\n", 2)))

\* The characters \w matches.
WordChars == Range(UpperChars) \cup Range(LowerChars) \cup Range(DigitChars) \cup {"_"}

\* A match of \s*\n\s* at position i followed by a character of lasts: the
\* position of that character, 0 when there is no match.  The characters of
\* lasts are not whitespace, so the whitespace matched is the whole run.
BreakEnd(t, i, lasts) ==
    LET e == RunEnd(t, i, IsSpace)
    IN  IF /\ e >= i
           /\ \E k \in i..e : t[k] = "\n"
           /\ e < Len(t)
           /\ t[e + 1] \in lasts
        THEN e + 1 ELSE 0

\* re.sub of (first)dash\s*\n\s*(last) by first, sep, last, from position i
\* on: the matches are found left to right and do not overlap.
RECURSIVE JoinBrokenFrom(_, _, _, _, _, _)
JoinBrokenFrom(t, i, firsts, dash, lasts, sep) ==
    IF i > Len(t) THEN <<>>
    ELSE LET end == IF t[i] \in firsts /\ StartsWithAt(t, i + 1, dash)
                    THEN BreakEnd(t, i + 1 + Len(dash), lasts) ELSE 0
         IN  IF end > 0
             THEN <<t[i]>> \o sep \o <<t[end]>>
                      \o JoinBrokenFrom(t, end + 1, firsts, dash, lasts, sep)
             ELSE <<t[i]>> \o JoinBrokenFrom(t, i + 1, firsts, dash, lasts, sep)

\* re.sub(r'(\w)-\s*\n\s*(\w)', r'\1\2', text)
JoinHyphenated(t) == JoinBrokenFrom(t, 1, WordChars, <<"-">>, WordChars, <<>>)

\* re.sub(r'([a-z,])\s*\n\s*([a-z])', r'\1 \2', text)
JoinContinued(t) ==
    JoinBrokenFrom(t, 1, Range(LowerChars) \cup {","}, <<>>, Range(LowerChars), <<" ">>)

\* re.sub(r'\n\s*\n', '\n\n', text) from position i on: a match runs from a
\* line break to the last line break of the whitespace that follows it.
RECURSIVE ParagraphBreaksFrom(_, _)
ParagraphBreaksFrom(t, i) ==
    IF i > Len(t) THEN <<>>
    ELSE LET e == RunEnd(t, i, IsSpace)
             nls == {k \in (i + 1)..e : t[k] = "\n"}
         IN  IF t[i] = "\n" /\ nls # {}
             THEN <<"\n", "\n">> \o ParagraphBreaksFrom(t, SetMax(nls) + 1)
             ELSE <<t[i]>> \o ParagraphBreaksFrom(t, i + 1)

\* The last step without the lookahead: every line break not preceded by one.
SingleBreaks_NoLookahead(t) ==
    [i \in 1..Len(t) |->
        IF t[i] = "\n" /\ (i = 1 \/ t[i - 1] # "\n") THEN " " ELSE t[i]]

\* re.sub(r'(?<!\n)\n(?!\n)', ' ', text)
SingleBreaks(t) ==
    [i \in 1..Len(t) |->
        IF /\ t[i] = "\n"
           /\ (i = 1 \/ t[i - 1] # "\n")
           /\ (i = Len(t) \/ t[i + 1] # "\n")
        THEN " " ELSE t[i]]

\* fix_line_breaks
FixLineBreaks(t) ==
    SingleBreaks(ParagraphBreaksFrom(JoinContinued(JoinHyphenated(t)), 1))

\* re.sub of \\name\{([^}]+)\} (open is \name{) from position i on, by the
\* group when keep, by nothing otherwise.
RECURSIVE SubCommandFrom(_, _, _, _)
SubCommandFrom(t, i, open, keep) ==
    IF i > Len(t) THEN <<>>
    ELSE LET p == i + Len(open)
             closes == {k \in p..Len(t) : t[k] = "}"}
         IN  IF StartsWithAt(t, i, open) /\ closes # {} /\ SetMin(closes) > p
             THEN (IF keep THEN SubSeq(t, p, SetMin(closes) - 1) ELSE <<>>)
                      \o SubCommandFrom(t, SetMin(closes) + 1, open, keep)
             ELSE <<t[i]>> \o SubCommandFrom(t, i + 1, open, keep)

\* self.latex_replacements without its last entry, in the order of the dict:
\* the command and whether its argument is kept.
LatexReplacements ==
    <<<<Chars("\\textbf{"), TRUE>>, <<Chars("\\textit{"), TRUE>>, <<Chars("\\emph{"), TRUE>>,
      <<Chars("\\section{"), TRUE>>, <<Chars("\\subsection{"), TRUE>>,
      <<Chars("\\cite{"), FALSE>>, <<Chars("\\ref{"), FALSE>>, <<Chars("\\label{"), FALSE>>,
      <<Chars("\\begin{"), FALSE>>, <<Chars("\\end{"), FALSE>>>>

\* The first k replacements applied in order.
RECURSIVE ApplyReplacements(_, _)
ApplyReplacements(t, k) ==
    IF k = 0 THEN t
    ELSE SubCommandFrom(ApplyReplacements(t, k - 1), 1,
                        LatexReplacements[k][1], LatexReplacements[k][2])

\* re.sub(r'\\[a-zA-Z]+', '', text): a backslash followed by a letter goes,
\* with the letters that follow it.
OtherCommands(t) ==
    LET starts == {i \in 1..(Len(t) - 1) : t[i] = "\\" /\ IsAlpha(t[i + 1])}
        gone == starts \cup {k \in 1..Len(t) :
                                \E i \in starts : i < k /\ k <= RunEnd(t, i + 1, IsAlpha)}
        marked == [i \in 1..Len(t) |-> IF i \in gone THEN "" ELSE t[i]]
    IN  SelectSeq(marked, LAMBDA c : c # "")

\* remove_latex
RemoveLatex(t) ==
    LET stripped == OtherCommands(ApplyReplacements(t, Len(LatexReplacements)))
    IN  CollapseWhitespace(SelectSeq(stripped, LAMBDA c : c \notin {"{", "}"}))

\* The characters of the model outside ASCII, named by their code points.
\* unicodedata.normalize('NFKC', c) followed by the replacements: a str.
NormalizeChar(c) ==
    CASE c \in {"U+2018", "U+2019"} -> <<"'">>
      [] c \in {"U+201C", "U+201D"} -> <<"\"">>
      [] c = "U+2013" -> <<"-">>
      [] c = "U+2014" -> <<"-", "-">>
      [] c = "U+2026" -> <<".", ".", ".">>
      [] c = "U+00A0" -> <<" ">>
      [] c = "U+00AD" -> <<>>
      [] c = "U+FB01" -> <<"f", "i">>
      [] OTHER -> <<c>>

\* normalize_unicode
NormalizeUnicode(t) == Concat([i \in 1..Len(t) |-> NormalizeChar(t[i])])

\* re.sub of one of opens followed by \S+ by nothing, from position i on.
RECURSIVE RemoveUrlsFrom(_, _, _)
RemoveUrlsFrom(t, i, opens) ==
    IF i > Len(t) THEN <<>>
    ELSE LET NotSpace(c) == ~IsSpace(c)
             ends == {RunEnd(t, i + Len(open), NotSpace) :
                         open \in {o \in opens : /\ StartsWithAt(t, i, o)
                                                 /\ i + Len(o) <= Len(t)
                                                 /\ NotSpace(t[i + Len(o)])}}
         IN  IF ends # {}
             THEN RemoveUrlsFrom(t, SetMax(ends) + 1, opens)
             ELSE <<t[i]>> \o RemoveUrlsFrom(t, i + 1, opens)

\* remove_urls: https?://\S+ and then www\.\S+
RemoveUrls(t) ==
    RemoveUrlsFrom(RemoveUrlsFrom(t, 1, {Chars("http://"), Chars("https://")}), 1, {Chars("www.")})

\* Python's None as the text argument: no str of the model holds this element.
NoText == <<"<None>">>

\* not text, when text is None
IsFalsy_EmptyOnly(t) == t = <<>>

\* not text: None and the empty str are falsy.
IsFalsy(t) == t = NoText \/ t = <<>>

\* The transforms of clean_text, in the order of its if statements.
TransformOrder ==
    <<"normalize_unicode", "remove_latex", "fix_line_breaks", "remove_urls",
      "normalize_whitespace">>

\* The method of the given name applied to a str.
Transform(name, t) ==
    CASE name = "normalize_unicode" -> NormalizeUnicode(t)
      [] name = "remove_latex" -> RemoveLatex(t)
      [] name = "fix_line_breaks" -> FixLineBreaks(t)
      [] name = "remove_urls" -> RemoveUrls(t)
      [] name = "normalize_whitespace" -> NormalizeWhitespace(t)

\* The statement of clean_text after the if statement of a transform.
AfterTransform_UrlsLast(name) ==
    CASE name = "start" -> "normalize_unicode"
      [] name = "normalize_unicode" -> "remove_latex"
      [] name = "remove_latex" -> "fix_line_breaks"
      [] name = "fix_line_breaks" -> "normalize_whitespace"
      [] name = "normalize_whitespace" -> "remove_urls"
      [] name = "remove_urls" -> "return"

AfterTransform(name) ==
    CASE name = "start" -> "normalize_unicode"
      [] name = "normalize_unicode" -> "remove_latex"
      [] name = "remove_latex" -> "fix_line_breaks"
      [] name = "fix_line_breaks" -> "remove_urls"
      [] name = "remove_urls" -> "normalize_whitespace"
      [] name = "normalize_whitespace" -> "return"

\* ------------------------------------------------------------ the inputs
CleanerTexts == AllSeqs({"a", " ", "\n"}, MaxCleanLen)

\* Texts with broken lines, for fix_line_breaks.
BreakTexts == AllSeqs({"a", "A", "-", " ", "\n"}, MaxBreakLen)

\* The empty string and strings of whitespace only.
WhitespaceTexts == AllSeqs({" ", "\n", "\t"}, MaxBlankLen)

\* Strings made of markup commands only.
MarkupPool ==
    <<Chars("\\textbf{a}"), Chars("\\cite{x}"), Chars("\\begin{"), Chars("\\frac"), Chars("\\"), Chars("{}"),
      Chars("\\emph{}")>>

MarkupTexts ==
    {Concat([k \in 1..Len(ix) |-> MarkupPool[ix[k]]]) :
        ix \in AllSeqs(1..Len(MarkupPool), MaxCommands) \ {<<>>}}

\* Texts with characters outside ASCII, URLs, markup and broken lines.
MixedTexts ==
    {<<"U+201C", "a", "U+201D", "U+2014", "U+FB01", "U+00AD", "U+00A0", "U+2026",
       "U+2018", "U+2019", "U+2013", "U+00E9">>,
     Chars("see http://a.b/c  and https://d or www.e.f now"),
     Chars("http:// https://x www. wwwxy http://"),
     Chars("co-\noperate \\textbf{now}  at\nwww.x.y\n\n\nEnd"),
     Chars("a \\cite{b}\n \nb   c,\n d\\\\"),
     Chars(" \\section{One}\nTwo-\n three \\label{l} ")}

\* The flags of clean_text: the set of the transforms enabled.
FlagSets == SUBSET Range(TransformOrder)

DirectTexts == WhitespaceTexts \cup MarkupTexts \cup MixedTexts \cup {NoText}

InitCleaner ==
    /\ ChunkerOff /\ ParserOff /\ SessionsOff
    /\ cleaner_out = <<>> /\ cleaner_text = <<>> /\ cleaner_applied = <<>>
    /\ cleaner_raised = FALSE
    /\ \/ /\ cleaner_call = "normalize_whitespace"
          /\ cleaner_in \in CleanerTexts \cup DirectTexts
          /\ cleaner_flags = {} /\ cleaner_pc = "off"
       \/ /\ cleaner_call = "fix_line_breaks"
          /\ cleaner_in \in BreakTexts \cup DirectTexts
          /\ cleaner_flags = {} /\ cleaner_pc = "off"
       \/ /\ cleaner_call \in {"normalize_unicode", "remove_latex", "remove_urls"}
          /\ cleaner_in \in DirectTexts
          /\ cleaner_flags = {} /\ cleaner_pc = "off"
       \/ /\ cleaner_call = "clean_text"
          /\ cleaner_in \in DirectTexts
          /\ cleaner_flags \in FlagSets
          /\ cleaner_pc = "start"

\* The text the next call is given: the input, then the last result.
CleanerArg == IF cleaner_out = <<>> THEN cleaner_in ELSE cleaner_out[Len(cleaner_out)]

\* A direct call of a transform: re.sub, str.replace and
\* unicodedata.normalize raise TypeError when the text is None.
CallTransform(name) ==
    /\ cleaner_call = name
    /\ ~cleaner_raised
    /\ Len(cleaner_out) < MaxCalls
    /\ IF CleanerArg = NoText
       THEN cleaner_raised' = TRUE /\ UNCHANGED cleaner_out
       ELSE /\ cleaner_out' = Append(cleaner_out, Transform(name, CleanerArg))
            /\ UNCHANGED cleaner_raised
    /\ UNCHANGED <<chunkerVars, parserVars, sessionVars, cleaner_call, cleaner_in, cleaner_flags,
                   cleaner_pc, cleaner_text, cleaner_applied>>

NormalizeWhitespaceCall == cleaner_call = "normalize_whitespace" /\ CallTransform("normalize_whitespace")
FixLineBreaksCall == cleaner_call = "fix_line_breaks" /\ CallTransform("fix_line_breaks")
NormalizeUnicodeCall == cleaner_call = "normalize_unicode" /\ CallTransform("normalize_unicode")
RemoveLatexCall == cleaner_call = "remove_latex" /\ CallTransform("remove_latex")
RemoveUrlsCall == cleaner_call = "remove_urls" /\ CallTransform("remove_urls")

\* clean_text: if not text: return ""
CleanTextStart ==
    /\ cleaner_call = "clean_text"
    /\ cleaner_pc = "start"
    /\ IF IsFalsy(cleaner_in)
       THEN /\ cleaner_out' = <<<<>>>>
            /\ cleaner_pc' = "done"
            /\ UNCHANGED cleaner_text
       ELSE /\ cleaner_text' = cleaner_in
            /\ cleaner_pc' = AfterTransform("start")
            /\ UNCHANGED cleaner_out
    /\ UNCHANGED <<chunkerVars, parserVars, sessionVars, cleaner_call, cleaner_in, cleaner_flags,
                   cleaner_applied, cleaner_raised>>

\* clean_text: if <flag>: text = self.<transform>(text).  The transform
\* raises TypeError when text is None.
CleanTextStep(name) ==
    /\ cleaner_call = "clean_text"
    /\ cleaner_pc = name
    /\ IF name \in cleaner_flags
       THEN /\ cleaner_applied' = Append(cleaner_applied, name)
            /\ IF cleaner_text = NoText
               THEN /\ cleaner_raised' = TRUE
                    /\ cleaner_pc' = "done"
                    /\ UNCHANGED cleaner_text
               ELSE /\ cleaner_text' = Transform(name, cleaner_text)
                    /\ cleaner_pc' = AfterTransform(name)
                    /\ UNCHANGED cleaner_raised
       ELSE /\ cleaner_pc' = AfterTransform(name)
            /\ UNCHANGED <<cleaner_text, cleaner_applied, cleaner_raised>>
    /\ UNCHANGED <<chunkerVars, parserVars, sessionVars, cleaner_call, cleaner_in, cleaner_flags,
                   cleaner_out>>

StepNormalizeUnicode == cleaner_pc = "normalize_unicode" /\ CleanTextStep("normalize_unicode")
StepRemoveLatex == cleaner_pc = "remove_latex" /\ CleanTextStep("remove_latex")
StepFixLineBreaks == cleaner_pc = "fix_line_breaks" /\ CleanTextStep("fix_line_breaks")
StepRemoveUrls == cleaner_pc = "remove_urls" /\ CleanTextStep("remove_urls")
StepNormalizeWhitespace == cleaner_pc = "normalize_whitespace" /\ CleanTextStep("normalize_whitespace")

\* clean_text: return text
CleanTextReturn ==
    /\ cleaner_call = "clean_text"
    /\ cleaner_pc = "return"
    /\ cleaner_out' = <<cleaner_text>>
    /\ cleaner_pc' = "done"
    /\ UNCHANGED <<chunkerVars, parserVars, sessionVars, cleaner_call, cleaner_in, cleaner_flags,
                   cleaner_text, cleaner_applied, cleaner_raised>>

NextCleaner ==
    \/ NormalizeWhitespaceCall
    \/ FixLineBreaksCall
    \/ NormalizeUnicodeCall
    \/ RemoveLatexCall
    \/ RemoveUrlsCall
    \/ CleanTextStart
    \/ StepNormalizeUnicode
    \/ StepRemoveLatex
    \/ StepFixLineBreaks
    \/ StepRemoveUrls
    \/ StepNormalizeWhitespace
    \/ CleanTextReturn

SpecCleaner == InitCleaner /\ [][NextCleaner]_vars

\* C20: normalize_whitespace is idempotent: applied to its own result it
\* returns that result.
C20_Idempotent ==
    (cleaner_call = "normalize_whitespace" /\ Len(cleaner_out) >= 2)
        => cleaner_out[2] = cleaner_out[1]

\* The lengths of the maximal runs of line breaks of t.
NewlineRuns(t) ==
    {RunEnd(t, i, LAMBDA c : c = "\n") - i + 1 :
        i \in {j \in 1..Len(t) : t[j] = "\n" /\ (j = 1 \/ t[j - 1] # "\n")}}

\* C21: in the output of fix_line_breaks the line breaks come in runs of
\* exactly two: no single line break and no run of three or more.
C21_OnlyParagraphBreaks ==
    cleaner_call = "fix_line_breaks" =>
        \A k \in 1..Len(cleaner_out) : NewlineRuns(cleaner_out[k]) \subseteq {2}

\* A text with a single line break and a run of three: the first is gone and
\* the second is a paragraph break.
C21_Witness ==
    /\ cleaner_call = "fix_line_breaks"
    /\ Len(cleaner_out) >= 1
    /\ NewlineRuns(cleaner_in) = {1, 3}
    /\ NewlineRuns(cleaner_out[1]) = {2}

\* The result of a call is a str.
IsStr(t) == t # NoText /\ \A i \in 1..Len(t) : t[i] # "<None>"

\* C22: clean_text returns "" for None and for the empty string; clean_text
\* and every transform return a str, without raising, for the empty string,
\* strings of whitespace and strings of markup commands.
C22_Total ==
    /\ (cleaner_call = "clean_text" /\ cleaner_in \in {NoText, <<>>} /\ cleaner_pc = "done")
           => cleaner_out = <<<<>>>> /\ ~cleaner_raised
    /\ cleaner_in \in WhitespaceTexts \cup MarkupTexts =>
          /\ ~cleaner_raised
          /\ \A k \in 1..Len(cleaner_out) : IsStr(cleaner_out[k])

\* clean_text(None) has returned with every transform enabled.
C22_Witness ==
    /\ cleaner_call = "clean_text"
    /\ cleaner_in = NoText
    /\ cleaner_flags = Range(TransformOrder)
    /\ cleaner_pc = "done"
    /\ cleaner_out = <<<<>>>>

\* The transforms enabled, in the fixed order.
EnabledInOrder == SelectSeq(TransformOrder, LAMBDA n : n \in cleaner_flags)

\* C24: clean_text calls its enabled transforms in the order unicode, markup,
\* line breaks, URLs, whitespace: at any moment the calls made are the first
\* of the enabled ones in that order, and all of them when it returns.
C24_FixedOrder ==
    cleaner_call = "clean_text" =>
        /\ Len(cleaner_applied) <= Len(EnabledInOrder)
        /\ cleaner_applied = SubSeq(EnabledInOrder, 1, Len(cleaner_applied))
        /\ (cleaner_pc = "done" /\ cleaner_in \notin {NoText, <<>>})
               => /\ cleaner_applied = EnabledInOrder
                  /\ cleaner_out = <<cleaner_text>>

\* A call with one transform disabled and the URLs removed before the
\* whitespace is normalized.
C24_Witness ==
    /\ cleaner_call = "clean_text"
    /\ cleaner_pc = "done"
    /\ cleaner_flags = Range(TransformOrder) \ {"remove_latex"}
    /\ cleaner_applied = <<"normalize_unicode", "fix_line_breaks", "remove_urls",
                           "normalize_whitespace">>

\* ------------------------------------------------ chunk_by_paragraphs, again
\* The paragraphs of the text are separated by exactly one blank line.
PlainSeparators == Join(ReSplit(text), <<"\n", "\n">>) = text

\* C23: for a text whose paragraphs are separated by "\n\n", every chunk of
\* chunk_by_paragraphs has end_pos = start_pos + len(content) and
\* text[start_pos:end_pos] = content, and start_pos does not decrease.
C23_ParagraphOffsets ==
    (pc = "done" /\ ParagraphsCall /\ PlainSeparators) =>
        \A k \in 1..Len(returned) :
            /\ returned[k].end_pos = returned[k].start_pos + Len(returned[k].content)
            /\ PySlice(text, returned[k].start_pos, returned[k].end_pos)
                   = returned[k].content
            /\ k > 1 => returned[k - 1].start_pos <= returned[k].start_pos

\* The paragraphs of the k-th chunk returned.
ChunkParagraphs(k) == ReSplit(returned[k].content)

\* The index in paragraphs of the first paragraph of the k-th chunk, when
\* skip(k) tells whether the first paragraph of chunk k + 1 is a repetition.
RECURSIVE FirstIndex(_, _)
FirstIndex(k, skip) ==
    IF k = 1 THEN 1
    ELSE FirstIndex(k - 1, skip) + Len(ChunkParagraphs(k - 1))
             - (IF skip[k - 1] THEN 1 ELSE 0)

\* Every chunk is the "\n\n"-join of the consecutive paragraphs from its
\* first index on, and the last chunk ends with the last paragraph.
WholeParagraphs(skip) ==
    /\ returned # <<>>
    /\ \A k \in 1..Len(returned) :
          LET lo == FirstIndex(k, skip)
              hi == lo + Len(ChunkParagraphs(k)) - 1
          IN  /\ hi <= Len(paragraphs)
              /\ returned[k].content = Join(SubSeq(paragraphs, lo, hi), <<"\n", "\n">>)
              /\ k = Len(returned) => hi = Len(paragraphs)

\* The first paragraph of chunk k + 1 has the content of the last paragraph
\* of chunk k.
RepeatsLast ==
    [k \in 1..(Len(returned) - 1) |->
        ChunkParagraphs(k + 1)[1] = ChunkParagraphs(k)[Len(ChunkParagraphs(k))]]

\* Chunk k holds more than one paragraph: its last one is carried over.
CarriesLast ==
    [k \in 1..(Len(returned) - 1) |-> Len(ChunkParagraphs(k)) > 1]

\* C25 as claimed: the chunks are joins of consecutive whole paragraphs, and
\* skipping every first paragraph that repeats the last paragraph of the
\* chunk before gives every paragraph once, in order.
C25_Original ==
    (pc = "done" /\ ParagraphsCall) => WholeParagraphs(RepeatsLast)

\* C25 as amended: the same, skipping the first paragraph of a chunk exactly
\* when the chunk before holds more than one paragraph; that first paragraph
\* is then the last paragraph of the chunk before.
C25_NoParagraphLost ==
    (pc = "done" /\ ParagraphsCall) =>
        /\ WholeParagraphs(CarriesLast)
        /\ \A k \in 1..(Len(returned) - 1) : CarriesLast[k] => RepeatsLast[k]

\* Three paragraphs in two chunks, the second paragraph in both.
C25_Witness ==
    /\ pc = "done" /\ ParagraphsCall
    /\ Len(paragraphs) = 3
    /\ Len(returned) = 2
    /\ CarriesLast[1]
    /\ Len(ChunkParagraphs(2)) = 2

\* ---------------------------------------------------------------------------
\* SessionManager (src/memory/session_manager.py)
\* ---------------------------------------------------------------------------

\* Bounds of the session model.
MaxSessions == 2
MaxSessionIds == 3
MaxTimeoutHours == 1
MaxClock == 3
MaxManagerCalls == 6

\* datetime resolution of the model: the ticks of one hour.  The time between
\* two datetime.now() calls of one method call is at most one tick.
TicksPerHour == 2

\* A session id that no create_session of this manager returned.
ForeignId == 0

\* The paper_path, created_at and metadata fields are never read by the
\* operations modelled here and are left out.
SessionData(id, now) ==
    [session_id |-> id, last_accessed |-> now, document |-> None,
     agent_outputs |-> [a \in {} |-> None], final_report |-> None,
     status |-> "initialized"]

\* list.remove(x): drops the first occurrence of x.
RECURSIVE ListRemove(_, _)
ListRemove(s, x) ==
    IF s = <<>> THEN <<>>
    ELSE IF Head(s) = x THEN Tail(s)
    ELSE <<Head(s)>> \o ListRemove(Tail(s), x)

\* del d[k]
DictDel(d, k) == [x \in DOMAIN d \ {k} |-> d[x]]

\* d[k] = v
DictSet(d, k, v) == [x \in DOMAIN d \cup {k} |-> IF x = k THEN v ELSE d[x]]

RECURSIVE EvictIfNeeded(_, _)
EvictIfNeeded(m, max) ==
    IF Cardinality(DOMAIN m.sessions) > max /\ m.access_order # <<>>
    THEN LET oldest_id == Head(m.access_order)
         IN  EvictIfNeeded(
                 [sessions |-> IF oldest_id \in DOMAIN m.sessions
                               THEN DictDel(m.sessions, oldest_id)
                               ELSE m.sessions,
                  access_order |-> Tail(m.access_order)], max)
    ELSE m

DeleteSession(m, session_id) ==
    IF session_id \in DOMAIN m.sessions
    THEN [sm |-> [sessions |-> DictDel(m.sessions, session_id),
                  access_order |-> ListRemove(m.access_order, session_id)],
          ret |-> "True"]
    ELSE [sm |-> m, ret |-> "False"]

IsExpired(age, timeout) == age > timeout

\* get_session; age is the time between the datetime.now() of line 141 and
\* the one of _is_expired.
GetSession(m, session_id, now, age, timeout) ==
    IF session_id \in DOMAIN m.sessions
    THEN LET session == [m.sessions[session_id] EXCEPT !.last_accessed = now]
             touched == [sessions |-> DictSet(m.sessions, session_id, session),
                         access_order |->
                             Append(ListRemove(m.access_order, session_id),
                                    session_id)]
         IN  IF IsExpired(age, timeout)
             THEN [sm |-> DeleteSession(touched, session_id).sm, ret |-> "None"]
             ELSE [sm |-> touched, ret |-> "session"]
    ELSE [sm |-> m, ret |-> "None"]

\* setattr for every key of updates that is an attribute of the session.
SetAttrs(session, updates) ==
    [f \in DOMAIN session |->
        IF f \in DOMAIN updates THEN updates[f] ELSE session[f]]

UpdateSession(m, session_id, updates, now, age, timeout) ==
    LET got == GetSession(m, session_id, now, age, timeout)
    IN  IF got.ret = "None" THEN [sm |-> got.sm, ret |-> "False"]
        ELSE [sm |-> [got.sm EXCEPT !.sessions[session_id] =
                         [SetAttrs(@, updates) EXCEPT !.last_accessed = now + age]],
              ret |-> "True"]

StoreDocument(m, session_id, document, now, age, timeout) ==
    UpdateSession(m, session_id, [document |-> document], now, age, timeout)

StoreAgentOutput(m, session_id, agent_name, output, now, age, timeout) ==
    LET got == GetSession(m, session_id, now, age, timeout)
    IN  IF got.ret = "None" THEN [sm |-> got.sm, ret |-> "False"]
        ELSE [sm |-> [got.sm EXCEPT !.sessions[session_id] =
                         [@ EXCEPT !.agent_outputs =
                                       DictSet(@, agent_name, output),
                                   !.last_accessed = now + age]],
              ret |-> "True"]

StoreFinalReport(m, session_id, report, now, age, timeout) ==
    UpdateSession(m, session_id,
                  [final_report |-> report, status |-> "completed"],
                  now, age, timeout)

CreateSession(m, session_id, now, max) ==
    EvictIfNeeded(
        [sessions |-> DictSet(m.sessions, session_id, SessionData(session_id, now)),
         access_order |-> Append(m.access_order, session_id)], max)

\* import_session of a file that holds the session data.
ImportSession(m, data) ==
    [sessions |-> DictSet(m.sessions, data.session_id, data),
     access_order |-> Append(m.access_order, data.session_id)]

\* list_sessions: the ids of the summaries it returns.
ListSessions(m) ==
    SelectSeq(m.access_order, LAMBDA id : id \in DOMAIN m.sessions)

\* The order of last access (creation or get_session) of the stored sessions.
Accessed(rec, id) == Append(SelectSeq(rec, LAMBDA x : x # id), id)
StoredOf(rec, m) == SelectSeq(rec, LAMBDA x : x \in DOMAIN m.sessions)

\* ---- the manager as a state machine ----

\* The ids a caller passes: those create_session returned, and a foreign one.
CallIds == (1..(next_id - 1)) \cup {ForeignId}

\* The ids of the files import_session reads: sessions this manager exported.
FileIds == 1..(next_id - 1)

\* The time between two datetime.now() calls of one method call.
Ages == IF clock < MaxClock THEN {0, 1} ELSE {0}

InitSession ==
    /\ ChunkerOff /\ ParserOff /\ CleanerOff
    /\ max_sessions \in 1..MaxSessions
    /\ session_timeout \in {h * TicksPerHour : h \in 0..MaxTimeoutHours}
    /\ sm = [sessions |-> <<>>, access_order |-> <<>>]
    /\ clock = 0 /\ next_id = 1 /\ s_ret = "-" /\ s_calls = 0 /\ recency = <<>>
    /\ o_args = <<>> /\ o_pc = "off" /\ o_session_id = 0 /\ o_exception = "-"

ManagerCall(result, rec, elapsed) ==
    /\ s_calls < MaxManagerCalls
    /\ s_calls' = s_calls + 1
    /\ sm' = result.sm
    /\ s_ret' = result.ret
    /\ recency' = StoredOf(rec, result.sm)
    /\ clock' = clock + elapsed
    /\ UNCHANGED <<max_sessions, session_timeout>>
    /\ UNCHANGED <<chunkerVars, parserVars, cleanerVars, orchestratorVars>>

\* A get_session made by the call is an access of a stored session.
AccessOf(id) == IF id \in DOMAIN sm.sessions THEN Accessed(recency, id) ELSE recency

CreateSessionCall ==
    /\ o_pc = "off" /\ next_id >= 1 /\ next_id <= MaxSessionIds
    /\ next_id' = next_id + 1
    /\ ManagerCall([sm |-> CreateSession(sm, next_id, clock, max_sessions),
                    ret |-> "session_id"],
                   Accessed(recency, next_id), 0)

GetSessionCall(id) ==
    /\ o_pc = "off" /\ next_id >= 1
    /\ \E age \in Ages :
          ManagerCall(GetSession(sm, id, clock, age, session_timeout), AccessOf(id), age)
    /\ UNCHANGED next_id

UpdateSessionCall(id) ==
    /\ o_pc = "off" /\ next_id >= 1
    /\ \E age \in Ages :
          ManagerCall(UpdateSession(sm, id, [status |-> "processing"],
                                    clock, age, session_timeout), AccessOf(id), age)
    /\ UNCHANGED next_id

StoreDocumentCall(id) ==
    /\ o_pc = "off" /\ next_id >= 1
    /\ \E age \in Ages :
          ManagerCall(StoreDocument(sm, id, "document", clock, age, session_timeout),
                      AccessOf(id), age)
    /\ UNCHANGED next_id

StoreAgentOutputCall(id) ==
    /\ o_pc = "off" /\ next_id >= 1
    /\ \E age \in Ages :
          ManagerCall(StoreAgentOutput(sm, id, "Summary", "success",
                                       clock, age, session_timeout), AccessOf(id), age)
    /\ UNCHANGED next_id

StoreFinalReportCall(id) ==
    /\ o_pc = "off" /\ next_id >= 1
    /\ \E age \in Ages :
          ManagerCall(StoreFinalReport(sm, id, "report", clock, age, session_timeout),
                      AccessOf(id), age)
    /\ UNCHANGED next_id

DeleteSessionCall(id) ==
    /\ o_pc = "off" /\ next_id >= 1
    /\ ManagerCall(DeleteSession(sm, id), recency, 0)
    /\ UNCHANGED next_id

\* import_session: the file is missing, or holds a session exported at time 0.
ImportSessionCall(id) ==
    /\ o_pc = "off" /\ next_id >= 1
    /\ \E exists \in BOOLEAN :
          IF exists
          THEN ManagerCall([sm |-> ImportSession(sm, SessionData(id, 0)),
                            ret |-> "session_id"],
                           recency, 0)
          ELSE ManagerCall([sm |-> sm, ret |-> "None"], recency, 0)
    /\ UNCHANGED next_id

ClearAllSessions ==
    /\ o_pc = "off" /\ next_id >= 1
    /\ ManagerCall([sm |-> [sessions |-> <<>>, access_order |-> <<>>],
                    ret |-> "count"], <<>>, 0)
    /\ UNCHANGED next_id

\* Time passes between two calls.
Tick ==
    /\ o_pc = "off" /\ next_id >= 1
    /\ clock < MaxClock
    /\ clock' = clock + 1
    /\ s_ret' = "-"
    /\ UNCHANGED <<max_sessions, session_timeout, sm, next_id, recency, s_calls>>
    /\ UNCHANGED <<chunkerVars, parserVars, cleanerVars, orchestratorVars>>

NextSession ==
    \/ CreateSessionCall
    \/ \E id \in CallIds : GetSessionCall(id)
    \/ \E id \in CallIds : UpdateSessionCall(id)
    \/ \E id \in CallIds : StoreDocumentCall(id)
    \/ \E id \in CallIds : StoreAgentOutputCall(id)
    \/ \E id \in CallIds : StoreFinalReportCall(id)
    \/ \E id \in CallIds : DeleteSessionCall(id)
    \/ \E id \in FileIds : ImportSessionCall(id)
    \/ ClearAllSessions
    \/ Tick

SpecSession == InitSession /\ [][NextSession]_vars

\* ---------------------------------------------------------------------------
\* Claims about SessionManager
\* ---------------------------------------------------------------------------

\* C26: after any sequence of SessionManager operations the number of
\* sessions held in memory never exceeds max_sessions.
C26_CountBounded ==
    o_pc = "off" => Cardinality(DOMAIN sm.sessions) <= max_sessions

\* The number of times id occurs in the list.
Occurrences(s, id) == Cardinality({i \in 1..Len(s) : s[i] = id})

\* C27: access_order contains the id of every stored session exactly once and
\* no id of a session that is not stored, so list_sessions reports each stored
\* session exactly once.
C27_OrderMatchesStore ==
    o_pc = "off" =>
        /\ \A id \in DOMAIN sm.sessions : Occurrences(sm.access_order, id) = 1
        /\ \A i \in 1..Len(sm.access_order) : sm.access_order[i] \in DOMAIN sm.sessions
        /\ \A id \in DOMAIN sm.sessions : Occurrences(ListSessions(sm), id) = 1

\* The place of a session in the order of last access, 0 when the session was
\* never accessed in this manager.
Rank(id) ==
    IF \E i \in 1..Len(recency) : recency[i] = id
    THEN CHOOSE i \in 1..Len(recency) : recency[i] = id
    ELSE 0

\* C28: with max_sessions >= 1, when create_session makes the number of
\* sessions exceed max_sessions, the session evicted is the least recently
\* accessed one and the session just created is never the one evicted: no
\* session that stays was accessed before an evicted one.
C28_EvictsLeastRecent ==
    [][(/\ CreateSessionCall
        /\ max_sessions >= 1
        /\ Cardinality(DOMAIN sm.sessions \cup {next_id}) > max_sessions)
       => /\ next_id \in DOMAIN sm'.sessions
          /\ \A e \in DOMAIN sm.sessions \ DOMAIN sm'.sessions :
             \A s \in DOMAIN sm.sessions \cap DOMAIN sm'.sessions :
                 ~(Rank(s) > 0 /\ Rank(e) > Rank(s))]_vars

\* C29: a get_session(id) made more than session_timeout after the previous
\* access of the session returns None and removes the session.
C29_ExpiredNeverReturned ==
    [][\A id \in CallIds :
          (/\ GetSessionCall(id)
           /\ id \in DOMAIN sm.sessions
           /\ clock - sm.sessions[id].last_accessed > session_timeout)
          => (s_ret' = "None" /\ id \notin DOMAIN sm'.sessions)]_vars

\* ---------------------------------------------------------------------------
\* OrchestratorAgent.analyze_paper (src/orchestrator.py)
\* ---------------------------------------------------------------------------

\* The agents _run_analysis_agents runs, in its order.
AnalysisAgents == <<"Summary", "Methodology", "Math", "Critique", "Implementation">>

\* The agents whose output _run_aggregation reads from the session.
AggregatedAgents == <<"DocumentExtractor">> \o AnalysisAgents

\* The status of the result an agent's run returns.
AgentStatuses == {"success", "error"}

\* get_agent_output of every aggregated agent: one get_session each.
RECURSIVE GetAgentOutputs(_, _, _, _, _)
GetAgentOutputs(m, session_id, n, now, timeout) ==
    IF n = 0 THEN m
    ELSE GetAgentOutputs(GetSession(m, session_id, now, 0, timeout).sm,
                         session_id, n - 1, now, timeout)

\* get_session_report, after the get_session it makes.
GetSessionReport(m, session_id) ==
    IF session_id \in DOMAIN m.sessions
    THEN m.sessions[session_id].final_report
    ELSE None

\* What follows the current position when no exception is raised.
AfterStage(stage) ==
    IF stage = "DocumentExtractor" THEN AnalysisAgents[1]
    ELSE IF \E i \in 1..(Len(AnalysisAgents) - 1) : AnalysisAgents[i] = stage
         THEN AnalysisAgents[1 + CHOOSE i \in 1..Len(AnalysisAgents) : AnalysisAgents[i] = stage]
    ELSE IF stage = AnalysisAgents[Len(AnalysisAgents)] THEN "Aggregator"
    ELSE IF stage = "Aggregator" THEN "store_final_report"
    ELSE "returned"

\* The manager the orchestrator works with has stored sessions before, and
\* analyze_paper is called with a session id or with None (given = FALSE).
InitOrchestrator ==
    /\ ChunkerOff /\ ParserOff /\ CleanerOff
    /\ max_sessions \in 1..MaxSessions
    /\ session_timeout \in {h * TicksPerHour : h \in 1..MaxTimeoutHours}
    /\ clock = 0 /\ s_ret = "-" /\ s_calls = 0
    /\ \E n \in 0..1 :
          /\ next_id = n + 1
          /\ sm = IF n = 0 THEN [sessions |-> <<>>, access_order |-> <<>>]
                  ELSE CreateSession([sessions |-> <<>>, access_order |-> <<>>],
                                     1, 0, max_sessions)
          /\ recency = IF n = 0 THEN <<>> ELSE <<1>>
          /\ o_args \in [pdf_exists : BOOLEAN, given : BOOLEAN,
                         session_id : (1..n) \cup {ForeignId},
                         save_outputs : BOOLEAN]
    /\ (~o_args.given => o_args.session_id = ForeignId)
    /\ o_pc = "call" /\ o_session_id = ForeignId /\ o_exception = "-"

\* One statement of analyze_paper: the manager after it, the next position and
\* the exception in flight.
OrchestratorStep(m, next_pc, exception) ==
    /\ sm' = m
    /\ o_pc' = next_pc
    /\ o_exception' = exception
    /\ recency' = IF o_session_id' \in DOMAIN m.sessions
                  THEN Accessed(StoredOf(recency, m), o_session_id')
                  ELSE StoredOf(recency, m)
    /\ UNCHANGED <<max_sessions, session_timeout, clock, s_ret, s_calls, o_args>>
    /\ UNCHANGED <<chunkerVars, parserVars, cleanerVars>>

AnalyzePaperStart ==
    /\ o_pc = "call"
    /\ IF ~o_args.pdf_exists
       THEN /\ UNCHANGED <<o_session_id, next_id>>
            /\ OrchestratorStep(sm, "raised", "FileNotFoundError")
       ELSE IF ~o_args.given
       THEN /\ o_session_id' = next_id
            /\ next_id' = next_id + 1
            /\ OrchestratorStep(CreateSession(sm, next_id, clock, max_sessions),
                                "DocumentExtractor", "-")
       ELSE /\ o_session_id' = o_args.session_id
            /\ UNCHANGED next_id
            /\ OrchestratorStep(sm, "DocumentExtractor", "-")

RunDocumentExtraction ==
    /\ o_pc = "DocumentExtractor"
    /\ UNCHANGED <<o_session_id, next_id>>
    /\ \E status \in AgentStatuses :
          IF status # "success"
          THEN OrchestratorStep(sm, "except", "RuntimeError")
          ELSE OrchestratorStep(
                   StoreAgentOutput(
                       StoreDocument(sm, o_session_id, "document",
                                     clock, 0, session_timeout).sm,
                       o_session_id, "DocumentExtractor", status,
                       clock, 0, session_timeout).sm,
                   AfterStage(o_pc), "-")

RunAnalysisAgent ==
    /\ o_pc \in Range(AnalysisAgents)
    /\ UNCHANGED <<o_session_id, next_id>>
    /\ \E status \in AgentStatuses :
          OrchestratorStep(
              StoreAgentOutput(sm, o_session_id, o_pc, status,
                               clock, 0, session_timeout).sm,
              AfterStage(o_pc), "-")

RunAggregation ==
    /\ o_pc = "Aggregator"
    /\ UNCHANGED <<o_session_id, next_id>>
    /\ LET read == GetAgentOutputs(sm, o_session_id, Len(AggregatedAgents),
                                   clock, session_timeout)
       IN  \E status \in AgentStatuses :
              IF status # "success"
              THEN OrchestratorStep(read, "except", "RuntimeError")
              ELSE OrchestratorStep(
                       StoreAgentOutput(read, o_session_id, "Aggregator", status,
                                        clock, 0, session_timeout).sm,
                       AfterStage(o_pc), "-")

StoreReport ==
    /\ o_pc = "store_final_report"
    /\ UNCHANGED <<o_session_id, next_id>>
    /\ OrchestratorStep(
           StoreFinalReport(sm, o_session_id, "report", clock, 0, session_timeout).sm,
           IF o_args.save_outputs THEN "save_outputs" ELSE "returned", "-")

\* _save_outputs writes files and may fail.
SaveOutputs ==
    /\ o_pc = "save_outputs"
    /\ UNCHANGED <<o_session_id, next_id>>
    /\ \E written \in BOOLEAN :
          IF written
          THEN OrchestratorStep(sm, "returned", "-")
          ELSE OrchestratorStep(sm, "except", "OSError")

HandleException ==
    /\ o_pc = "except"
    /\ UNCHANGED <<o_session_id, next_id>>
    /\ OrchestratorStep(
           UpdateSession(sm, o_session_id, [status |-> "failed"],
                         clock, 0, session_timeout).sm,
           "raised", o_exception)

NextOrchestrator ==
    \/ AnalyzePaperStart
    \/ RunDocumentExtraction
    \/ RunAnalysisAgent
    \/ RunAggregation
    \/ StoreReport
    \/ SaveOutputs
    \/ HandleException

SpecOrchestrator == InitOrchestrator /\ [][NextOrchestrator]_vars

\* The agents whose output a finished analysis has stored.
AllAgents == Range(AggregatedAgents) \cup {"Aggregator"}

\* C30: analyze_paper always records its outcome in the session it worked on:
\* after a normal return the manager holds the session with status
\* 'completed', the document, every agent's output and the final report, which
\* get_session_report returns; after an exception of a stage the manager holds
\* the session with status 'failed' and the exception is raised to the caller.
C30_OutcomeRecorded ==
    /\ o_pc = "returned" =>
          /\ o_session_id \in DOMAIN sm.sessions
          /\ sm.sessions[o_session_id].status = "completed"
          /\ sm.sessions[o_session_id].document = "document"
          /\ DOMAIN sm.sessions[o_session_id].agent_outputs = AllAgents
          /\ sm.sessions[o_session_id].final_report = "report"
          /\ GetSessionReport(sm, o_session_id) = "report"
    /\ (o_pc = "raised" /\ o_exception # "FileNotFoundError") =>
          /\ o_exception # "-"
          /\ o_session_id \in DOMAIN sm.sessions
          /\ sm.sessions[o_session_id].status = "failed"

====
